---- MODULE Spec2Model ----
(***************************************************************************)
(* Import pipeline of umlfri2: the four language front-ends' parse_files,  *)
(* the JavaTypeResolver and the JavaModelBuilder                           *)
(* (src/umlfri2/application/importers).                                    *)
(*                                                                         *)
(* Python values are modelled as follows.  str is a TLA+ string, None is   *)
(* the value None below, a list is a sequence, a dict is the sequence of   *)
(* its [key, value] entries in insertion order, a set is a set.            *)
(***************************************************************************)
EXTENDS Integers, Sequences, FiniteSets, Bags, TLC

VARIABLES
    frontend,        \* which parser class runs parse_files
    paths,           \* the argument of parse_files
    idx,             \* position of the `for path in paths` loop
    types,           \* Dict[str, TypeModel]: the types table
    errors,          \* List[str]: the warnings of parse_files
    pc,              \* control state of the running operation
    raised,          \* the exception that left the operation, or None
    simple_index,    \* JavaTypeResolver._simple_index
    call,            \* the last call of a function: arguments and result
    project,         \* the document model: elements, connections, diagrams
    builder,         \* the JavaModelBuilder's fields
    frame,           \* the local variables of build
    summary,         \* the BuildSummary build returned, or None
    ruler            \* the ruler that measures the visuals

parseVars == <<frontend, paths, idx, errors>>
resolverVars == <<simple_index, call>>
buildVars == <<project, builder, frame, summary, ruler>>
vars == <<frontend, paths, idx, types, errors, pc, raised, simple_index, call,
          project, builder, frame, summary, ruler>>

None == "<None>"

\* None where the other values are records (an Optional[TypeModel], an
\* Optional[TypeDescriptor]).
NoneObject == [none |-> TRUE]

\* Python truthiness of an Optional[str].
Truthy(s) == s # None /\ s # ""

-----------------------------------------------------------------------------
(* dict: insertion-ordered entries *)

DictKeys(d) == {d[i].key : i \in 1..Len(d)}

DictHas(d, k) == \E i \in 1..Len(d) : d[i].key = k

\* d[k] for a key that is present
DictGet(d, k) == d[CHOOSE i \in 1..Len(d) : d[i].key = k].value

\* d.get(k): None when the key is absent
DictGetOrNone(d, k) == IF DictHas(d, k) THEN DictGet(d, k) ELSE None

\* d[k] = v: a present key keeps its position and gets the new value,
\* an absent key is appended.
DictSet(d, k, v) ==
    IF DictHas(d, k)
    THEN [i \in 1..Len(d) |-> IF d[i].key = k THEN [key |-> k, value |-> v] ELSE d[i]]
    ELSE Append(d, [key |-> k, value |-> v])

\* d.values()
DictValues(d) == [i \in 1..Len(d) |-> d[i].value]

-----------------------------------------------------------------------------
(* Type model *)

ImportContext(direct, wildcard) ==
    [direct_imports |-> direct, wildcard_imports |-> wildcard]

EmptyImports == ImportContext(<<>>, <<>>)

TypeDescriptor(name, qualifier, arguments) ==
    [name |-> name, qualifier |-> qualifier, arguments |-> arguments, dimensions |-> 0]

\* TypeDescriptor.direct_full_name
direct_full_name(d) ==
    IF Truthy(d.qualifier) THEN d.qualifier \o "." \o d.name ELSE None

JavaField(name, descriptor) ==
    [name |-> name, type_descriptor |-> descriptor, modifiers |-> {"private"}]

TypeModel(name, package, kind, extends, implements, fields, imports, constants, path) ==
    [name |-> name, package |-> package, kind |-> kind, modifiers |-> {},
     fields |-> fields, methods |-> <<>>, extends |-> extends,
     implements |-> implements, imports |-> imports, source_path |-> path,
     enum_constants |-> constants]

\* TypeModel.full_name
full_name(m) ==
    IF Truthy(m.package) THEN m.package \o "." \o m.name ELSE m.name

-----------------------------------------------------------------------------
(* The document model before an import, and a builder just constructed *)

\* a project with no element, connection or diagram
\* (connections are a bag: the order in which a set of targets is walked is
\* not fixed, so the order of creation is not recorded)
EmptyProject ==
    [name |-> "Demo", elements |-> <<>>, connections |-> EmptyBag, diagrams |-> <<>>]

\* None where an element or a diagram is expected; save_ids start at 1
NoElement == 0

\* JavaModelBuilder.__init__
NewBuilder ==
    [_packages |-> <<>>, _class_elements |-> <<>>, _class_visuals |-> <<>>,
     _connections |-> {}, _diagram |-> NoElement]

NoBuild ==
    /\ project = EmptyProject
    /\ builder = NewBuilder
    /\ frame = NoneObject
    /\ summary = NoneObject
    /\ ruler = NoneObject

-----------------------------------------------------------------------------
(* The files parse_files is given.  A file is unreadable (open raises      *)
(* OSError), is not valid UTF-8, or is text; text is well formed, has a    *)
(* syntax error, has a character no token starts with, or nests deeper     *)
(* than the interpreter's recursion limit.  decls are its top-level type   *)
(* declarations in source order.                                           *)

MaxPaths == 3

Frontends == {"java", "csharp", "cpp", "python"}

Decl(node, name, package) == [node |-> node, name |-> name, package |-> package]

File(readable, utf8, defect, decls) ==
    [readable |-> readable, utf8 |-> utf8, defect |-> defect, decls |-> decls]

Paths == {"Shape1", "Shape2", "Nodes", "Missing", "Latin1", "Broken", "BadToken", "Deep"}

SourceFile(path) ==
    CASE path = "Shape1" ->
            File(TRUE, TRUE, "none", <<Decl("ClassDeclaration", "Shape", "app")>>)
      [] path = "Shape2" ->
            File(TRUE, TRUE, "none",
                 <<Decl("InterfaceDeclaration", "Shape", "app"),
                   Decl("AnnotationDeclaration", "Marker", "app"),
                   Decl("ClassDeclaration", "Circle", "app")>>)
      [] path = "Nodes" ->
            File(TRUE, TRUE, "none",
                 <<Decl("ClassDeclaration", "Node", None),
                   Decl("EnumDeclaration", "Node", None)>>)
      [] path = "Missing" -> File(FALSE, TRUE, "none", <<>>)
      [] path = "Latin1" ->
            File(TRUE, FALSE, "none", <<Decl("ClassDeclaration", "Legacy", "app")>>)
      [] path = "Broken" ->
            File(TRUE, TRUE, "syntax", <<Decl("ClassDeclaration", "Half", "app")>>)
      [] path = "BadToken" ->
            File(TRUE, TRUE, "lexical", <<Decl("ClassDeclaration", "Token", "app")>>)
      [] OTHER ->
            File(TRUE, TRUE, "nesting", <<Decl("ClassDeclaration", "Deep", "app")>>)

\* open(path, "r", encoding="utf-8"[, errors="replace"]) and read(): the
\* exception raised, or None.  Only the Java parser decodes strictly.
ReadException(fe, file) ==
    IF ~file.readable THEN "OSError"
    ELSE IF fe = "java" /\ ~file.utf8 THEN "UnicodeDecodeError"
    ELSE None

\* The exception the front-end's content parser raises on the file, or None:
\* javalang.parse.parse, ast.parse, or the regular-expression scanners.
ParseException(fe, file) ==
    CASE fe = "java" ->
            (CASE file.defect = "syntax" -> "JavaSyntaxError"
               [] file.defect = "lexical" -> "LexerError"
               [] file.defect = "nesting" -> "RecursionError"
               [] OTHER -> None)
      [] fe = "python" ->
            (CASE file.defect \in {"syntax", "lexical"} -> "SyntaxError"
               [] file.defect = "nesting" -> "RecursionError"
               [] OTHER -> None)
      [] OTHER ->
            (IF file.defect = "nesting" THEN "RecursionError" ELSE None)

\* The except clauses around the read and around the parse.
ReadCaught(fe, exc) == exc = "OSError"

ParseCaught(fe, exc) ==
    IF fe = "java"
    THEN exc \in {"JavaSyntaxError", "IndexError", "TypeError", "AttributeError"}
    ELSE TRUE

\* JavaSourceParser._convert_type: None for a declaration that is not a
\* class, an interface or an enum.
_convert_type(decl, path) ==
    CASE decl.node = "ClassDeclaration" ->
            TypeModel(decl.name, decl.package, "class", <<>>, <<>>, <<>>, EmptyImports, <<>>, path)
      [] decl.node = "InterfaceDeclaration" ->
            TypeModel(decl.name, decl.package, "interface", <<>>, <<>>, <<>>, EmptyImports, <<>>, path)
      [] decl.node = "EnumDeclaration" ->
            TypeModel(decl.name, decl.package, "enum", <<>>, <<>>, <<>>, EmptyImports, <<>>, path)
      [] OTHER -> NoneObject

\* The models a front-end finds in a file it parsed: tree.types converted
\* one by one (Java, with None for what it does not support), or the list
\* _parse_content / _extract_classes returns.
FileModels(fe, path) ==
    LET decls == SourceFile(path).decls
        all == [i \in 1..Len(decls) |-> _convert_type(decls[i], path)]
    IN  IF fe = "java" THEN all ELSE SelectSeq(all, LAMBDA m : m # NoneObject)

Warning(kind, path, subject) == [kind |-> kind, path |-> path, subject |-> subject]

\* One round of the loop that stores a file's models in the types table.
\* Java reports a duplicate and keeps the stored model; C++ keeps the stored
\* model and reports nothing; C# and Python assign unconditionally.
MergeOne(fe, model, acc) ==
    CASE fe = "java" ->
            IF model = NoneObject THEN acc
            ELSE IF DictHas(acc.types, full_name(model))
            THEN [acc EXCEPT !.errors =
                     Append(@, Warning("duplicate", DictGet(acc.types, full_name(model)).source_path,
                                       full_name(model)))]
            ELSE [acc EXCEPT !.types = DictSet(@, full_name(model), model)]
      [] fe = "cpp" ->
            IF ~DictHas(acc.types, full_name(model))
            THEN [acc EXCEPT !.types = DictSet(@, full_name(model), model)]
            ELSE acc
      [] OTHER ->
            [acc EXCEPT !.types = DictSet(@, full_name(model), model)]

RECURSIVE MergeModels(_, _, _)
MergeModels(fe, models, acc) ==
    IF models = <<>> THEN acc
    ELSE MergeModels(fe, Tail(models), MergeOne(fe, Head(models), acc))

RECURSIVE SeqsUpTo(_, _)
SeqsUpTo(S, n) ==
    IF n = 0 THEN {<<>>}
    ELSE LET shorter == SeqsUpTo(S, n - 1)
         IN  shorter \cup {Append(s, x) : s \in shorter, x \in S}

ParseInit ==
    /\ frontend \in Frontends
    /\ paths \in SeqsUpTo(Paths, MaxPaths)
    /\ idx = 1
    /\ types = <<>>
    /\ errors = <<>>
    /\ pc = "parsing"
    /\ raised = None
    /\ simple_index = <<>>
    /\ call = NoneObject
    /\ NoBuild

InLoop == pc = "parsing" /\ idx <= Len(paths)

\* except OSError: one warning, next path
ReadFails ==
    /\ InLoop
    /\ ReadException(frontend, SourceFile(paths[idx])) # None
    /\ ReadCaught(frontend, ReadException(frontend, SourceFile(paths[idx])))
    /\ errors' = Append(errors, Warning("read", paths[idx], "OSError"))
    /\ idx' = idx + 1
    /\ UNCHANGED <<frontend, paths, types, pc, raised, resolverVars, buildVars>>

\* an exception of the read that no except clause names leaves parse_files
ReadRaises ==
    /\ InLoop
    /\ ReadException(frontend, SourceFile(paths[idx])) # None
    /\ ~ReadCaught(frontend, ReadException(frontend, SourceFile(paths[idx])))
    /\ raised' = ReadException(frontend, SourceFile(paths[idx]))
    /\ pc' = "raised"
    /\ UNCHANGED <<frontend, paths, idx, types, errors, resolverVars, buildVars>>

\* the parser raised and the except clause names the exception
ParseFails ==
    /\ InLoop
    /\ ReadException(frontend, SourceFile(paths[idx])) = None
    /\ ParseException(frontend, SourceFile(paths[idx])) # None
    /\ ParseCaught(frontend, ParseException(frontend, SourceFile(paths[idx])))
    /\ errors' = Append(errors, Warning("parse", paths[idx],
                                        ParseException(frontend, SourceFile(paths[idx]))))
    /\ idx' = idx + 1
    /\ UNCHANGED <<frontend, paths, types, pc, raised, resolverVars, buildVars>>

\* the parser raised an exception the except clause does not name
ParseRaises ==
    /\ InLoop
    /\ ReadException(frontend, SourceFile(paths[idx])) = None
    /\ ParseException(frontend, SourceFile(paths[idx])) # None
    /\ ~ParseCaught(frontend, ParseException(frontend, SourceFile(paths[idx])))
    /\ raised' = ParseException(frontend, SourceFile(paths[idx]))
    /\ pc' = "raised"
    /\ UNCHANGED <<frontend, paths, idx, types, errors, resolverVars, buildVars>>

\* the file was read and parsed: its models are stored
MergeFile ==
    /\ InLoop
    /\ ReadException(frontend, SourceFile(paths[idx])) = None
    /\ ParseException(frontend, SourceFile(paths[idx])) = None
    /\ LET acc == MergeModels(frontend, FileModels(frontend, paths[idx]),
                              [types |-> types, errors |-> errors])
       IN  /\ types' = acc.types
           /\ errors' = acc.errors
    /\ idx' = idx + 1
    /\ UNCHANGED <<frontend, paths, pc, raised, resolverVars, buildVars>>

\* return ParseResult(types=types, errors=errors)
ParseReturn ==
    /\ pc = "parsing"
    /\ idx > Len(paths)
    /\ pc' = "returned"
    /\ UNCHANGED <<frontend, paths, idx, types, errors, raised, resolverVars, buildVars>>

ParseNext ==
    \/ ReadFails
    \/ ReadRaises
    \/ ParseFails
    \/ ParseRaises
    \/ MergeFile
    \/ ParseReturn

SpecParse == ParseInit /\ [][ParseNext]_vars

-----------------------------------------------------------------------------
(* Claims about parse_files *)

FileFails(fe, path) ==
    \/ ReadException(fe, SourceFile(path)) # None
    \/ ParseException(fe, SourceFile(path)) # None

\* The declarations parsed from a list of paths, in discovery order:
\* earliest path first, then position in the file.
RECURSIVE Discovered(_, _)
Discovered(fe, ps) ==
    IF ps = <<>> THEN <<>>
    ELSE (IF FileFails(fe, Head(ps)) THEN <<>>
          ELSE SelectSeq(FileModels(fe, Head(ps)), LAMBDA m : m # NoneObject))
         \o Discovered(fe, Tail(ps))

\* The paths whose loop round is over.
Done == SubSeq(paths, 1, idx - 1)

FirstNamed(models, key) ==
    models[CHOOSE i \in 1..Len(models) :
              /\ full_name(models[i]) = key
              /\ \A j \in 1..(i - 1) : full_name(models[j]) # key]

CountWarnings(kinds) == Cardinality({i \in 1..Len(errors) : errors[i].kind \in kinds})

\* C1: the model stored under a full_name is the first declaration discovered
\* with that full_name, for every front-end and every list of paths.
C1_FirstDeclarationWins ==
    \A i \in 1..Len(types) :
        types[i].value = FirstNamed(Discovered(frontend, Done), types[i].key)

\* C2: the number of duplicate-type warnings is the number of parsed
\* declarations minus the number of distinct full_names.
C2_OneWarningPerDuplicate ==
    LET found == Discovered(frontend, Done)
    IN  CountWarnings({"duplicate"})
          = Len(found) - Cardinality({full_name(found[i]) : i \in 1..Len(found)})

\* C3: a file that cannot be read or parsed adds exactly one string to errors
\* and nothing to types, parse_files does not raise, and the other files
\* contribute what they contribute without it.
C3_FailingFileIsSkipped ==
    /\ raised = None
    /\ CountWarnings({"read", "parse"})
          = Cardinality({i \in 1..Len(Done) : FileFails(frontend, Done[i])})
    /\ types = MergeModels(frontend,
                           Discovered(frontend,
                                      SelectSeq(Done, LAMBDA p : ~FileFails(frontend, p))),
                           [types |-> <<>>, errors |-> <<>>]).types

\* the types map parse_files returns for the one path alone
AloneTypes(fe, path) ==
    IF FileFails(fe, path) THEN <<>>
    ELSE MergeModels(fe, FileModels(fe, path), [types |-> <<>>, errors |-> <<>>]).types

\* one map merged into another: an entry is added when its key is new
RECURSIVE MergeFirstWins(_, _)
MergeFirstWins(merged, entries) ==
    IF entries = <<>> THEN merged
    ELSE MergeFirstWins(
             IF DictHas(merged, Head(entries).key) THEN merged
             ELSE Append(merged, Head(entries)),
             Tail(entries))

\* the per-file maps of a list of paths merged in the order of the list
RECURSIVE MergedInOrder(_, _)
MergedInOrder(fe, ps) ==
    IF ps = <<>> THEN <<>>
    ELSE MergeFirstWins(MergedInOrder(fe, SubSeq(ps, 1, Len(ps) - 1)),
                        AloneTypes(fe, ps[Len(ps)]))

\* C17: the types map of parse_files on a list of paths (same keys, same
\* retained models, same insertion order) is the one obtained by parsing
\* each path alone and merging the per-file maps in the order of the list,
\* the first model of a full_name winning.
C17_OrderedMergeOfFiles ==
    raised = None => types = MergedInOrder(frontend, Done)

-----------------------------------------------------------------------------
(* JavaTypeResolver *)

\* JavaTypeResolver.__init__: simple name -> set of the full names with it
RECURSIVE BuildIndex(_, _)
BuildIndex(entries, index) ==
    IF entries = <<>> THEN index
    ELSE LET simple == Head(entries).value.name
             known == IF DictHas(index, simple) THEN DictGet(index, simple) ELSE {}
         IN  BuildIndex(Tail(entries),
                        DictSet(index, simple, known \cup {Head(entries).key}))

\* self._simple_index.get(simple) as the set it is tested for: the stored
\* set, or the empty set for None (`matches and ...` treats both alike)
IndexGet(index, simple) ==
    IF DictHas(index, simple) THEN DictGet(index, simple) ELSE {}

\* the first wildcard import whose candidate is a key of the table, or 0
FirstWildcard(wildcards, simple, table) ==
    IF \E i \in 1..Len(wildcards) : DictHas(table, wildcards[i] \o "." \o simple)
    THEN CHOOSE i \in 1..Len(wildcards) :
            /\ DictHas(table, wildcards[i] \o "." \o simple)
            /\ \A j \in 1..(i - 1) : ~DictHas(table, wildcards[j] \o "." \o simple)
    ELSE 0

\* mutant: the import alias is consulted before the qualified name
resolve_ImportBeforeQualifier(descriptor, context) ==
    IF descriptor = NoneObject THEN None
    ELSE LET direct == direct_full_name(descriptor)
             simple == descriptor.name
             direct_import == DictGetOrNone(context.imports.direct_imports, simple)
         IN  IF DictHas(types, direct_import) THEN direct_import
             ELSE IF Truthy(direct) THEN direct
             ELSE None

\* mutant: the import alias is consulted after the wildcard imports and the
\* owning package
resolve_ImportsLast(descriptor, context) ==
    IF descriptor = NoneObject THEN None
    ELSE LET simple == descriptor.name
             direct_import == DictGetOrNone(context.imports.direct_imports, simple)
             wildcards == context.imports.wildcard_imports
             w == FirstWildcard(wildcards, simple, types)
         IN  IF w # 0 THEN wildcards[w] \o "." \o simple
             ELSE IF Truthy(context.package)
                     /\ DictHas(types, context.package \o "." \o simple)
             THEN context.package \o "." \o simple
             ELSE IF DictHas(types, direct_import) THEN direct_import
             ELSE None

\* mutant: any match of the simple-name index is returned, unique or not
resolve_AnyMatch(descriptor, context) ==
    IF descriptor = NoneObject THEN None
    ELSE LET matches == IndexGet(simple_index, descriptor.name)
         IN  IF matches # {}
             THEN CHOOSE m \in matches : TRUE
             ELSE None

\* mutant: the owning package is not consulted
resolve_NoSamePackage(descriptor, context) ==
    IF descriptor = NoneObject THEN None
    ELSE LET matches == IndexGet(simple_index, descriptor.name)
         IN  IF Cardinality(matches) = 1
             THEN CHOOSE m \in matches : TRUE
             ELSE None

\* mutant: the qualified name is not looked up in the table first
resolve_QualifierLast(descriptor, context) ==
    IF descriptor = NoneObject THEN None
    ELSE LET direct == direct_full_name(descriptor)
             simple == descriptor.name
             direct_import == DictGetOrNone(context.imports.direct_imports, simple)
             wildcards == context.imports.wildcard_imports
             w == FirstWildcard(wildcards, simple, types)
             matches == IndexGet(simple_index, simple)
         IN  IF DictHas(types, direct_import) THEN direct_import
             ELSE IF w # 0 THEN wildcards[w] \o "." \o simple
             ELSE IF Truthy(context.package)
                     /\ DictHas(types, context.package \o "." \o simple)
             THEN context.package \o "." \o simple
             ELSE IF Cardinality(matches) = 1
             THEN CHOOSE m \in matches : TRUE
             ELSE IF Truthy(direct) THEN direct
             ELSE None

\* mutant: the owning package is consulted before the wildcard imports
resolve_PackageBeforeWildcard(descriptor, context) ==
    IF descriptor = NoneObject THEN None
    ELSE LET direct == direct_full_name(descriptor)
             simple == descriptor.name
             direct_import == DictGetOrNone(context.imports.direct_imports, simple)
             wildcards == context.imports.wildcard_imports
             w == FirstWildcard(wildcards, simple, types)
             matches == IndexGet(simple_index, simple)
         IN  IF Truthy(direct) /\ DictHas(types, direct) THEN direct
             ELSE IF DictHas(types, direct_import) THEN direct_import
             ELSE IF Truthy(context.package)
                     /\ DictHas(types, context.package \o "." \o simple)
             THEN context.package \o "." \o simple
             ELSE IF w # 0 THEN wildcards[w] \o "." \o simple
             ELSE IF Cardinality(matches) = 1
             THEN CHOOSE m \in matches : TRUE
             ELSE IF Truthy(direct) THEN direct
             ELSE None

\* mutant: no literal name is returned for an unknown qualified name
resolve_NoLiteral(descriptor, context) ==
    IF descriptor = NoneObject THEN None
    ELSE LET direct == direct_full_name(descriptor)
             simple == descriptor.name
             direct_import == DictGetOrNone(context.imports.direct_imports, simple)
             wildcards == context.imports.wildcard_imports
             w == FirstWildcard(wildcards, simple, types)
             matches == IndexGet(simple_index, simple)
         IN  IF Truthy(direct) /\ DictHas(types, direct) THEN direct
             ELSE IF DictHas(types, direct_import) THEN direct_import
             ELSE IF w # 0 THEN wildcards[w] \o "." \o simple
             ELSE IF Truthy(context.package)
                     /\ DictHas(types, context.package \o "." \o simple)
             THEN context.package \o "." \o simple
             ELSE IF Cardinality(matches) = 1
             THEN CHOOSE m \in matches : TRUE
             ELSE None

\* JavaTypeResolver.resolve
resolve(descriptor, context) ==
    IF descriptor = NoneObject THEN None
    ELSE LET direct == direct_full_name(descriptor)
             simple == descriptor.name
             direct_import == DictGetOrNone(context.imports.direct_imports, simple)
             wildcards == context.imports.wildcard_imports
             w == FirstWildcard(wildcards, simple, types)
             matches == IndexGet(simple_index, simple)
         IN  IF Truthy(direct) /\ DictHas(types, direct) THEN direct
             ELSE IF DictHas(types, direct_import) THEN direct_import
             ELSE IF w # 0 THEN wildcards[w] \o "." \o simple
             ELSE IF Truthy(context.package)
                     /\ DictHas(types, context.package \o "." \o simple)
             THEN context.package \o "." \o simple
             ELSE IF Cardinality(matches) = 1
             THEN CHOOSE m \in matches : TRUE
             ELSE IF Truthy(direct) THEN direct
             ELSE None

\* mutant: each result is put in front of the output
RECURSIVE resolve_all_Prepend(_, _)
resolve_all_Prepend(descriptors, context) ==
    IF descriptors = <<>> THEN <<>>
    ELSE LET resolved == resolve(descriptors[Len(descriptors)], context)
             output == resolve_all_Prepend(SubSeq(descriptors, 1, Len(descriptors) - 1), context)
         IN  IF Truthy(resolved) THEN <<resolved>> \o output ELSE output

\* JavaTypeResolver.resolve_all: the output after the loop over descriptors
RECURSIVE resolve_all(_, _)
resolve_all(descriptors, context) ==
    IF descriptors = <<>> THEN <<>>
    ELSE LET resolved == resolve(descriptors[Len(descriptors)], context)
             output == resolve_all(SubSeq(descriptors, 1, Len(descriptors) - 1), context)
         IN  IF Truthy(resolved) THEN Append(output, resolved) ELSE output

\* mutant: the lookup subscripts the defaultdict, which stores an empty set
\* under a key it does not hold
IndexAfterGet_Subscript(index, simple) ==
    IF DictHas(index, simple) THEN index ELSE DictSet(index, simple, {})

\* self._simple_index.get(simple): the index after the lookup
IndexAfterGet(index, simple) == index

\* resolve comes to the lookup in the simple-name index
ReachesIndex(descriptor, context) ==
    /\ descriptor # NoneObject
    /\ ~(Truthy(direct_full_name(descriptor)) /\ DictHas(types, direct_full_name(descriptor)))
    /\ ~DictHas(types, DictGetOrNone(context.imports.direct_imports, descriptor.name))
    /\ FirstWildcard(context.imports.wildcard_imports, descriptor.name, types) = 0
    /\ ~(Truthy(context.package)
         /\ DictHas(types, context.package \o "." \o descriptor.name))

\* JavaTypeResolver.resolve: the simple-name index after the call
IndexAfterResolve(index, descriptor, context) ==
    IF ReachesIndex(descriptor, context)
    THEN IndexAfterGet(index, descriptor.name)
    ELSE index

\* the simple-name index after resolve was called on each descriptor in turn
RECURSIVE IndexAfterAll(_, _, _)
IndexAfterAll(index, descriptors, context) ==
    IF descriptors = <<>> THEN index
    ELSE IndexAfterAll(IndexAfterResolve(index, Head(descriptors), context),
                       Tail(descriptors), context)

\* the descriptors _create_connections and _create_associations hand to
\* resolve for one model: extends, implements, then each field's type and
\* its arguments
RECURSIVE FieldReferences(_)
FieldReferences(fields) ==
    IF fields = <<>> THEN <<>>
    ELSE (IF Head(fields).type_descriptor = NoneObject THEN <<>>
          ELSE <<Head(fields).type_descriptor>> \o Head(fields).type_descriptor.arguments)
         \o FieldReferences(Tail(fields))

ResolvedFor(model) == model.extends \o model.implements \o FieldReferences(model.fields)

-----------------------------------------------------------------------------
(* The resolver under calls: tables, owning types and descriptors *)

MaxRefs == 3

TableOf(models) == [i \in 1..Len(models) |-> [key |-> full_name(models[i]), value |-> models[i]]]

Plain(name, package) ==
    TypeModel(name, package, "class", <<>>, <<>>, <<>>, EmptyImports, <<>>, name \o ".java")

\* every sub-list of a list of models, in the list's order
RECURSIVE SubLists(_)
SubLists(models) ==
    IF models = <<>> THEN {<<>>}
    ELSE LET rest == SubLists(Tail(models))
         IN  rest \cup {<<Head(models)>> \o r : r \in rest}

ResolverTables ==
    {TableOf(ms) : ms \in SubLists(<<Plain("T", "a"), Plain("T", "b"),
                                     Plain("T", "c"), Plain("U", "a")>>)}

DirectImports == {<<>>, <<[key |-> "T", value |-> "a.T"]>>, <<[key |-> "T", value |-> "b.T"]>>}

WildcardImports == {<<>>, <<"a">>, <<"b">>, <<"a", "b">>, <<"b", "a">>}

Owners ==
    {TypeModel("Owner", package, "class", <<>>, <<>>, <<>>,
               ImportContext(direct, wildcard), <<>>, "Owner.java") :
        package \in {None, "a", "b"}, direct \in DirectImports, wildcard \in WildcardImports}

Descriptors ==
    {TypeDescriptor(name, qualifier, <<>>) : name \in {"T", "U"}, qualifier \in {None, "a", "c"}}

ListedDescriptors ==
    {TypeDescriptor("T", None, <<>>), TypeDescriptor("U", None, <<>>),
     TypeDescriptor("T", "c", <<>>), TypeDescriptor("U", "b", <<>>)}

ResolverInit ==
    /\ types \in ResolverTables
    /\ simple_index = BuildIndex(types, <<>>)
    /\ call = NoneObject
    /\ pc = "resolver"
    /\ raised = None
    /\ frontend = "java"
    /\ paths = <<>>
    /\ idx = 1
    /\ errors = <<>>
    /\ NoBuild

Resolve ==
    /\ pc = "resolver"
    /\ \E descriptor \in Descriptors \cup {NoneObject}, context \in Owners :
          /\ call' = [op |-> "resolve", descriptor |-> descriptor, descriptors |-> <<>>,
                   context |-> context, result |-> resolve(descriptor, context),
                   results |-> <<>>]
          /\ simple_index' = IndexAfterResolve(simple_index, descriptor, context)
    /\ pc' = "resolved"
    /\ UNCHANGED <<types, raised, parseVars, buildVars>>

ResolveAll ==
    /\ pc = "resolver"
    /\ \E descriptors \in SeqsUpTo(ListedDescriptors, MaxRefs), context \in Owners :
          /\ call' = [op |-> "resolve_all", descriptor |-> NoneObject,
                   descriptors |-> descriptors, context |-> context, result |-> None,
                   results |-> resolve_all(descriptors, context)]
          /\ simple_index' = IndexAfterAll(simple_index, descriptors, context)
    /\ pc' = "resolved"
    /\ UNCHANGED <<types, raised, parseVars, buildVars>>

\* the caller has taken the result; the resolver is ready for its next call
ResolverIdle ==
    /\ pc = "resolved"
    /\ pc' = "resolver"
    /\ call' = NoneObject
    /\ UNCHANGED <<types, simple_index, raised, parseVars, buildVars>>

ResolverNext ==
    \/ Resolve
    \/ ResolveAll
    \/ ResolverIdle

SpecResolve == ResolverInit /\ [][ResolverNext]_vars

-----------------------------------------------------------------------------
(* Claims about resolve and resolve_all *)

IsResolve == call # NoneObject /\ call.op = "resolve" /\ call.descriptor # NoneObject

IsResolveAll == call # NoneObject /\ call.op = "resolve_all"

Unqualified == ~Truthy(call.descriptor.qualifier)

\* the full name the owning type's import context records for the simple name
Alias == DictGetOrNone(call.context.imports.direct_imports, call.descriptor.name)

AliasKnown == Alias # None /\ Alias \in DictKeys(types)

QualifiedName == call.descriptor.qualifier \o "." \o call.descriptor.name

QualifiedKnown == Truthy(call.descriptor.qualifier) /\ QualifiedName \in DictKeys(types)

WildcardCandidates ==
    {call.context.imports.wildcard_imports[i] \o "." \o call.descriptor.name :
        i \in 1..Len(call.context.imports.wildcard_imports)} \cap DictKeys(types)

PackageCandidates ==
    IF Truthy(call.context.package)
    THEN {call.context.package \o "." \o call.descriptor.name} \cap DictKeys(types)
    ELSE {}

\* the types of the table with the descriptor's simple name
Namesakes == {k \in DictKeys(types) : DictGet(types, k).name = call.descriptor.name}

\* C4: an unqualified name whose import alias is a key of the table resolves
\* to the alias target, whatever else shares the simple name.
C4_ImportAliasWins ==
    (IsResolve /\ Unqualified /\ AliasKnown) => call.result = Alias

C4_Witness ==
    /\ IsResolve /\ Unqualified /\ AliasKnown
    /\ call.result = Alias
    /\ Cardinality(Namesakes) >= 2
    /\ WildcardCandidates \ {Alias} # {}
    /\ PackageCandidates \ {Alias} # {}

\* C5: with no alias, wildcard or same-package match, an unqualified name
\* resolves exactly when one type of the whole table has that simple name,
\* and then to that type.
C5_UniqueFallback ==
    (IsResolve /\ Unqualified /\ ~AliasKnown
        /\ WildcardCandidates = {} /\ PackageCandidates = {})
    => /\ call.result # None <=> Cardinality(Namesakes) = 1
       /\ call.result # None => call.result \in Namesakes

C5_Witness ==
    /\ IsResolve /\ Unqualified /\ ~AliasKnown
    /\ WildcardCandidates = {} /\ PackageCandidates = {}
    /\ Truthy(call.context.package)
    /\ call.result \in Namesakes
    /\ DictGet(types, call.result).package # call.context.package

\* C6: with no alias or wildcard match, an unqualified name declared in the
\* owning type's package resolves to that declaration, whatever other
\* packages declare.
C6_SamePackageBeforeUniqueness ==
    (IsResolve /\ Unqualified /\ ~AliasKnown
        /\ WildcardCandidates = {} /\ PackageCandidates # {})
    => call.result = call.context.package \o "." \o call.descriptor.name

C6_Witness ==
    /\ IsResolve /\ Unqualified /\ ~AliasKnown
    /\ WildcardCandidates = {} /\ PackageCandidates # {}
    /\ Cardinality(Namesakes) >= 2
    /\ call.result = call.context.package \o "." \o call.descriptor.name

\* C7 as claimed: whenever the descriptor has a qualifier or the owning type
\* records an alias for its simple name, a returned identity is the name the
\* qualifier or the alias gives, never another full name.
C7_ExplicitAlwaysWins ==
    (IsResolve /\ call.result # None
        /\ (Truthy(call.descriptor.qualifier) \/ Alias # None))
    => call.result \in
          (IF Truthy(call.descriptor.qualifier) THEN {QualifiedName} ELSE {})
          \cup (IF Alias # None THEN {Alias} ELSE {})

\* C7 as amended: a qualified name that is a key of the table is the result;
\* failing that, an alias target that is a key of the table is the result.
C7_KnownExplicitNameWins ==
    IsResolve =>
        /\ QualifiedKnown => call.result = QualifiedName
        /\ (~QualifiedKnown /\ AliasKnown) => call.result = Alias

C7_Witness ==
    /\ IsResolve
    /\ QualifiedKnown /\ AliasKnown
    /\ Alias # QualifiedName
    /\ call.result = QualifiedName

\* C8: resolve_all returns the results of resolve in input order with the
\* unresolved ones removed.
C8_ResolveAllFiltersInOrder ==
    IsResolveAll =>
        /\ call.results =
              SelectSeq([i \in 1..Len(call.descriptors) |->
                            resolve(call.descriptors[i], call.context)],
                        LAMBDA r : r # None)
        /\ Len(call.results) <= Len(call.descriptors)

C8_Witness ==
    /\ IsResolveAll
    /\ Len(call.descriptors) = 3
    /\ resolve(call.descriptors[2], call.context) = None
    /\ Len(call.results) = 2
    /\ call.results[1] # call.results[2]

-----------------------------------------------------------------------------
(* Strings *)

\* the characters of identifiers and dotted names, in code point order
CodePoints == ".0123456789ABCDEFGHIJKLMNOPQRSTUVWXYZ_abcdefghijklmnopqrstuvwxyz"

Ord(c) == CHOOSE i \in 1..Len(CodePoints) : SubSeq(CodePoints, i, i) = c

\* a < b for str
RECURSIVE StrLess(_, _)
StrLess(a, b) ==
    IF a = "" THEN b # ""
    ELSE IF b = "" THEN FALSE
    ELSE IF Head(a) = Head(b) THEN StrLess(Tail(a), Tail(b))
    ELSE Ord(Head(a)) < Ord(Head(b))

\* s.split("."), from position i with the segment read so far
RECURSIVE SplitFrom(_, _, _)
SplitFrom(s, i, current) ==
    IF i > Len(s) THEN <<current>>
    ELSE IF SubSeq(s, i, i) = "." THEN <<current>> \o SplitFrom(s, i + 1, "")
    ELSE SplitFrom(s, i + 1, current \o SubSeq(s, i, i))

Split(s) == SplitFrom(s, 1, "")

\* sep.join(parts)
RECURSIVE Join(_, _)
Join(sep, parts) ==
    IF parts = <<>> THEN ""
    ELSE IF Len(parts) = 1 THEN parts[1]
    ELSE parts[1] \o sep \o Join(sep, Tail(parts))

\* s * n
RECURSIVE Repeat(_, _)
Repeat(s, n) == IF n <= 0 THEN "" ELSE s \o Repeat(s, n - 1)

\* TypeDescriptor.display
RECURSIVE display(_)
display(d) ==
    LET named == IF Truthy(d.qualifier) THEN d.qualifier \o "." \o d.name ELSE d.name
        generic == IF d.arguments # <<>>
                   THEN named \o "<"
                        \o Join(", ", [i \in 1..Len(d.arguments) |-> display(d.arguments[i])])
                        \o ">"
                   ELSE named
    IN  generic \o Repeat("[]", d.dimensions)

\* JavaField.visibility, JavaMethod.visibility: VISIBILITY_MAP in its order
visibility(modifiers) ==
    IF "public" \in modifiers THEN "+"
    ELSE IF "private" \in modifiers THEN "-"
    ELSE IF "protected" \in modifiers THEN "#"
    ELSE "~"

\* JavaTypeModel.stereotype
stereotype(model) ==
    IF model.kind = "interface" THEN "interface"
    ELSE IF model.kind = "enum" THEN "enum"
    ELSE None

\* int(math.sqrt(count))
IntSqrt(count) == CHOOSE r \in 0..count : r * r <= count /\ count < (r + 1) * (r + 1)

\* math.ceil(a / b)
CeilDiv(a, b) == (a + b - 1) \div b

Max(a, b) == IF a >= b THEN a ELSE b

-----------------------------------------------------------------------------
(* JavaModelBuilder *)

BASE_ELEMENT_WIDTH == 240
BASE_ELEMENT_HEIGHT == 140
ELEMENT_SPACING_X == 60
ELEMENT_SPACING_Y == 60
origin_x == 40
origin_y == 40

GENERALISATION_CONNECTION == "generalisation"
IMPLEMENTATION_CONNECTION == "implementation"
ASSOCIATION_CONNECTION == "association"

\* an element of the project; its save_id is its position in project.elements,
\* parent 0 is the project itself
Element(type, parent, name, abstract, stereo, attributes, operations) ==
    [type |-> type, parent |-> parent, name |-> name, abstract |-> abstract,
     stereotype |-> stereo, attributes |-> attributes, operations |-> operations]

\* create_child_element: the element is appended, its id is the new length
CreateChild(w, element) ==
    [w EXCEPT !.project.elements = Append(@, element)]

LastId(w) == Len(w.project.elements)

\* mutant: build accepts an empty types table
BuildRejects_Never(table) == FALSE

\* build: `if not types`
BuildRejects(table) == table = <<>>

\* _create_root_package
_create_root_package(w) ==
    LET made == CreateChild(w, Element("package", 0,
                       IF Truthy(w.project.name) THEN w.project.name ELSE "Imported Model",
                       FALSE, None, <<>>, <<>>))
    IN  [made EXCEPT !.builder._packages = DictSet(@, <<>>, LastId(made))]

\* _ensure_root_diagram, and self._diagram = diagram
_ensure_root_diagram(w, root_package) ==
    LET shown == [w EXCEPT !.project.diagrams =
                     Append(@, [parent |-> root_package, name |-> "Imported Java Classes",
                                elements |-> <<>>, connections |-> EmptyBag])]
    IN  [shown EXCEPT !.builder._diagram = Len(shown.project.diagrams)]

\* build: package_groups, the models of each package path in discovery order
RECURSIVE GroupPackages(_, _)
GroupPackages(models, groups) ==
    IF models = <<>> THEN groups
    ELSE LET model == Head(models)
             path == IF Truthy(model.package) THEN Split(model.package) ELSE <<>>
             listed == IF DictHas(groups, path) THEN DictGet(groups, path) ELSE <<>>
         IN  GroupPackages(Tail(models), DictSet(groups, path, Append(listed, model)))

\* the sort key (len(path), ".".join(path)) compared
KeyLess(p, q) ==
    \/ Len(p) < Len(q)
    \/ Len(p) = Len(q) /\ StrLess(Join(".", p), Join(".", q))

\* sorted(items, key=...): stable insertion of each item after the items
\* whose key is not greater
RECURSIVE SortedByKey(_)
SortedByKey(items) ==
    IF items = <<>> THEN <<>>
    ELSE LET front == SortedByKey(SubSeq(items, 1, Len(items) - 1))
             last == items[Len(items)]
             before == SelectSeq(front, LAMBDA it : ~KeyLess(last.key, it.key))
             after == SelectSeq(front, LAMBDA it : KeyLess(last.key, it.key))
         IN  before \o <<last>> \o after

\* mutant: `current` stays the root package, every container is its child
RECURSIVE _ensure_package_UnderRoot(_, _, _)
_ensure_package_UnderRoot(w, path, n) ==
    IF n = 0 THEN w
    ELSE LET before == _ensure_package_UnderRoot(w, path, n - 1)
             tuple_path == SubSeq(path, 1, n)
             current == DictGet(before.builder._packages, <<>>)
         IN  IF ~DictHas(before.builder._packages, tuple_path)
             THEN LET made == CreateChild(before,
                                  Element("package", current, path[n], FALSE, None, <<>>, <<>>))
                  IN  [made EXCEPT !.builder._packages = DictSet(@, tuple_path, LastId(made))]
             ELSE before
\* _ensure_package: the containers of path[1..n] exist; the container of the
\* whole path is returned by PackageOf
RECURSIVE _ensure_package(_, _, _)
_ensure_package(w, path, n) ==
    IF n = 0 THEN w
    ELSE LET before == _ensure_package(w, path, n - 1)
             tuple_path == SubSeq(path, 1, n)
             current == DictGet(before.builder._packages, SubSeq(path, 1, n - 1))
         IN  IF ~DictHas(before.builder._packages, tuple_path)
             THEN LET made == CreateChild(before,
                                  Element("package", current, path[n], FALSE, None, <<>>, <<>>))
                  IN  [made EXCEPT !.builder._packages = DictSet(@, tuple_path, LastId(made))]
             ELSE before

\* _populate_attributes
_populate_attributes(fields) ==
    [i \in 1..Len(fields) |->
        [name |-> fields[i].name,
         type |-> IF fields[i].type_descriptor # NoneObject
                  THEN display(fields[i].type_descriptor) ELSE "",
         visibility |-> visibility(fields[i].modifiers),
         static |-> "static" \in fields[i].modifiers]]

\* _populate_operations
_populate_operations(methods) ==
    [i \in 1..Len(methods) |->
        [name |-> methods[i].name,
         rtype |-> IF methods[i].return_type # NoneObject
                   THEN display(methods[i].return_type) ELSE "",
         visibility |-> visibility(methods[i].modifiers),
         static |-> "static" \in methods[i].modifiers,
         abstract |-> "abstract" \in methods[i].modifiers,
         parameters |->
            [j \in 1..Len(methods[i].parameters) |->
                [name |-> methods[i].parameters[j].name,
                 type |-> IF methods[i].parameters[j].type_descriptor # NoneObject
                          THEN display(methods[i].parameters[j].type_descriptor) ELSE ""]]]]

\* mutant: the attributes of every type come from its fields
_create_class_element_FromFields(w, parent, model) ==
    CreateChild(w, Element("class", parent, model.name, "abstract" \in model.modifiers,
        stereotype(model), _populate_attributes(model.fields),
        _populate_operations(model.methods)))

\* _create_class_element
_create_class_element(w, parent, model) ==
    CreateChild(w, Element("class", parent, model.name, "abstract" \in model.modifiers,
        stereotype(model),
        IF model.kind = "enum" /\ model.enum_constants # <<>>
        THEN [i \in 1..Len(model.enum_constants) |->
                 [name |-> model.enum_constants[i], type |-> "", visibility |-> "+",
                  static |-> FALSE]]
        ELSE _populate_attributes(model.fields),
        _populate_operations(model.methods)))

\* _register_class_visual: diagram.show(element), kept in _class_visuals
_register_class_visual(w, element) ==
    IF w.builder._diagram = NoElement
    THEN [w EXCEPT !.raised = "JavaImportError"]
    ELSE [w EXCEPT
             !.project.diagrams[w.builder._diagram].elements = Append(@, element),
             !.builder._class_visuals =
                 Append(@, [element |-> element, x |-> 0, y |-> 0, width |-> 0, height |-> 0])]

\* build: one round of `for model in models`
RECURSIVE CreateElements(_, _, _)
CreateElements(w, package_element, models) ==
    IF models = <<>> \/ w.raised # None THEN w
    ELSE LET made == _create_class_element(w, package_element, Head(models))
             kept == [made EXCEPT !.builder._class_elements =
                         DictSet(@, full_name(Head(models)), LastId(made)),
                                   !.total_elements = @ + 1]
         IN  CreateElements(_register_class_visual(kept, LastId(made)),
                            package_element, Tail(models))

\* visual.get_minimal_size(ruler): the ruler measures a header and the rows
MinimalSize(element, measure) ==
    LET rows == Len(element.attributes) + Len(element.operations)
    IN  [width |-> measure.base_width + measure.indent * rows,
         height |-> measure.header + measure.row_height * rows]

\* mutant: the column is taken from the one-based position
ColumnOf_OneBased(i, columns) == i % columns

\* _layout_classes: column and row of the visual at creation index i - 1
ColumnOf(i, columns) == (i - 1) % columns

RowOf(i, columns) == (i - 1) \div columns

\* mutant: the columns and rows keep the base size
Measured_BaseOnly(w, measure, columns, rows, n) ==
    [column_widths |-> [c \in 0..(columns - 1) |-> BASE_ELEMENT_WIDTH],
     row_heights |-> [r \in 0..(rows - 1) |-> BASE_ELEMENT_HEIGHT]]

\* _layout_classes: column_widths and row_heights after the first n visuals
RECURSIVE Measured(_, _, _, _, _)
Measured(w, measure, columns, rows, n) ==
    IF n = 0
    THEN [column_widths |-> [c \in 0..(columns - 1) |-> BASE_ELEMENT_WIDTH],
          row_heights |-> [r \in 0..(rows - 1) |-> BASE_ELEMENT_HEIGHT]]
    ELSE LET before == Measured(w, measure, columns, rows, n - 1)
             minimal == MinimalSize(w.project.elements[w.builder._class_visuals[n].element],
                                    measure)
             width == Max(BASE_ELEMENT_WIDTH, minimal.width)
             height == Max(BASE_ELEMENT_HEIGHT, minimal.height)
         IN  [column_widths |->
                 [before.column_widths EXCEPT ![ColumnOf(n, columns)] = Max(@, width)],
              row_heights |->
                 [before.row_heights EXCEPT ![RowOf(n, columns)] = Max(@, height)]]

\* the running offset before cell k: the sizes before it, each with its gap
RECURSIVE Offset(_, _, _)
Offset(sizes, spacing, k) ==
    IF k = 0 THEN 0 ELSE Offset(sizes, spacing, k - 1) + sizes[k - 1] + spacing

\* _layout_classes: layout_entries, one (visual, width, height, column, row)
\* for each visual in creation order
layout_entries(w, measure) ==
    LET count == Len(w.builder._class_visuals)
        columns == Max(1, IntSqrt(count))
    IN  [i \in 1..count |->
            LET minimal == MinimalSize(
                    w.project.elements[w.builder._class_visuals[i].element], measure)
            IN  [element |-> w.builder._class_visuals[i].element,
                 width |-> Max(BASE_ELEMENT_WIDTH, minimal.width),
                 height |-> Max(BASE_ELEMENT_HEIGHT, minimal.height),
                 column |-> ColumnOf(i, columns),
                 row |-> RowOf(i, columns)]]

\* _layout_classes
_layout_classes(w, measure) ==
    IF w.builder._class_visuals = <<>> THEN w
    ELSE LET count == Len(w.builder._class_visuals)
             columns == Max(1, IntSqrt(count))
             rows == CeilDiv(count, columns)
             sizes == Measured(w, measure, columns, rows, count)
             entries == layout_entries(w, measure)
         IN  [w EXCEPT !.builder._class_visuals =
                 [i \in 1..count |->
                     [element |-> entries[i].element,
                      x |-> origin_x + Offset(sizes.column_widths, ELEMENT_SPACING_X,
                                              entries[i].column),
                      y |-> origin_y + Offset(sizes.row_heights, ELEMENT_SPACING_Y,
                                              entries[i].row),
                      width |-> entries[i].width,
                      height |-> entries[i].height]]]

ConnectionKey(connection_type, source, target) == <<connection_type, source, target>>

Connect(w, source, target, connection_type) ==
    LET made == SetToBag({[type |-> connection_type, source |-> source, target |-> target]})
    IN  [w EXCEPT !.project.connections = @ (+) made,
                  !.project.diagrams[w.builder._diagram].connections = @ (+) made,
                  !.builder._connections =
                      @ \cup {ConnectionKey(connection_type, source, target)}]

\* mutant: a connection is created whether or not its key is known
_ensure_connection_NoCheck(w, source, target, connection_type) ==
    [w |-> Connect(w, source, target, connection_type), ret |-> 1]

\* _ensure_connection: the builder after the call, and the value returned
_ensure_connection(w, source, target, connection_type) ==
    IF ConnectionKey(connection_type, source, target) \in w.builder._connections
    THEN [w |-> w, ret |-> 0]
    ELSE [w |-> Connect(w, source, target, connection_type), ret |-> 1]

\* mutant: a name that has no node stands for the root package
ElementNamed_OrRoot(w, target_name) ==
    IF DictHas(w.builder._class_elements, target_name)
    THEN DictGet(w.builder._class_elements, target_name)
    ELSE DictGet(w.builder._packages, <<>>)

\* self._class_elements.get(target_name)
ElementNamed(w, target_name) ==
    IF DictHas(w.builder._class_elements, target_name)
    THEN DictGet(w.builder._class_elements, target_name)
    ELSE NoElement

\* _create_connections: the loop over model.extends, or over model.implements,
\* adding what _ensure_connection returns to created
RECURSIVE ConnectReferences(_, _, _, _, _)
ConnectReferences(w, model, source, references, connection_type) ==
    IF references = <<>> THEN w
    ELSE LET target == ElementNamed(w, resolve(Head(references), model))
             made == _ensure_connection(w, source, target, connection_type)
         IN  ConnectReferences(
                 IF target # NoElement
                 THEN [made.w EXCEPT !.created = @ + made.ret]
                 ELSE w,
                 model, source, Tail(references), connection_type)

\* _resolve_field_targets
_resolve_field_targets(descriptor, context) ==
    (IF Truthy(resolve(descriptor, context)) THEN {resolve(descriptor, context)} ELSE {})
    \cup {resolve(descriptor.arguments[i], context) :
             i \in {j \in 1..Len(descriptor.arguments) :
                       Truthy(resolve(descriptor.arguments[j], context))}}

\* _create_associations: `for target_name in association_targets`; the value
\* _ensure_connection returns is dropped
RECURSIVE AssociateTargets(_, _, _)
AssociateTargets(w, source, targets) ==
    IF targets = {} THEN w
    ELSE LET target_name == CHOOSE t \in targets : TRUE
             target == ElementNamed(w, target_name)
         IN  AssociateTargets(
                 IF target # NoElement
                 THEN _ensure_connection(w, source, target, ASSOCIATION_CONNECTION).w
                 ELSE w,
                 source, targets \ {target_name})

\* _create_associations
RECURSIVE _create_associations(_, _, _, _)
_create_associations(w, model, source, fields) ==
    IF fields = <<>> THEN w
    ELSE _create_associations(
             IF Head(fields).type_descriptor = NoneObject THEN w
             ELSE AssociateTargets(w, source,
                                   _resolve_field_targets(Head(fields).type_descriptor, model)),
             model, source, Tail(fields))

\* mutant: an implements entry makes a realisation edge whatever the kind
ConnectModel_AlwaysRealises(w, model) ==
    LET source == ElementNamed(w, full_name(model))
        extended == ConnectReferences(w, model, source, model.extends,
                                      GENERALISATION_CONNECTION)
        implemented == ConnectReferences(extended, model, source, model.implements,
                                         IMPLEMENTATION_CONNECTION)
    IN  IF source = NoElement THEN w
        ELSE _create_associations(implemented, model, source, model.fields)

\* _create_connections: one round of `for model in types.values()`
ConnectModel(w, model) ==
    LET source == ElementNamed(w, full_name(model))
        extended == ConnectReferences(w, model, source, model.extends,
                                      GENERALISATION_CONNECTION)
        implemented == ConnectReferences(extended, model, source, model.implements,
                           IF model.kind = "class" THEN IMPLEMENTATION_CONNECTION
                           ELSE GENERALISATION_CONNECTION)
    IN  IF source = NoElement THEN w
        ELSE _create_associations(implemented, model, source, model.fields)

-----------------------------------------------------------------------------
(* build, run on tables of Java types.  Derived extends Base, implements   *)
(* Flyable and has two fields of type Base; Walker names one type in a     *)
(* generic argument of a generic argument; two packages declare a Base.    *)

MaxTypes == 3

Ref(name) == TypeDescriptor(name, None, <<>>)

Generic(name, arguments) == TypeDescriptor(name, None, arguments)

JavaMethod(name, return_type, parameters, modifiers) ==
    [name |-> name, return_type |-> return_type, parameters |-> parameters,
     modifiers |-> modifiers]

Derived ==
    TypeModel("Derived", "app", "class", <<Ref("Base")>>, <<Ref("Flyable")>>,
        <<JavaField("base", Ref("Base")), JavaField("spare", Ref("Base")),
          JavaField("items", Generic("List", <<Ref("Flyable")>>))>>,
        ImportContext(<<[key |-> "Flyable", value |-> "app.api.Flyable"]>>, <<>>),
        <<>>, "Derived.java")

AppBase ==
    [TypeModel("Base", "app", "class", <<>>, <<>>, <<JavaField("raw", NoneObject)>>,
               EmptyImports, <<>>, "Base.java")
        EXCEPT !.modifiers = {"public", "abstract"},
               !.methods = <<JavaMethod("area", Ref("double"),
                                 <<[name |-> "scale", type_descriptor |-> Ref("double")]>>,
                                 {"public", "abstract"})>>]

Flyable ==
    TypeModel("Flyable", "app.api", "interface", <<>>, <<>>, <<>>, EmptyImports, <<>>,
              "Flyable.java")

Color ==
    [TypeModel("Color", None, "enum", <<>>, <<TypeDescriptor("Flyable", "app.api", <<>>)>>,
               <<JavaField("code", Ref("int"))>>, EmptyImports, <<"RED", "GREEN">>,
               "Color.java")
        EXCEPT !.methods = <<JavaMethod("label", Ref("String"), <<>>, {"public"})>>]

Walker ==
    TypeModel("Walker", "lib", "interface", <<Ref("Flyable"), Ref("Missing")>>, <<>>,
        <<JavaField("home", TypeDescriptor("Base", "app", <<>>)),
          JavaField("index", TypeDescriptor("Map", "java.util", <<Ref("String"), Ref("Base")>>)),
          JavaField("grid", Generic("List", <<Generic("List", <<Ref("Flyable")>>)>>))>>,
        ImportContext(<<>>, <<"app.api">>), <<>>, "Walker.java")

LibBase ==
    TypeModel("Base", "lib", "class", <<>>, <<Ref("Walker"), Ref("Walker")>>,
        <<JavaField("self", Ref("Base"))>>, EmptyImports, <<>>, "lib/Base.java")

BuildModels == {Derived, AppBase, Flyable, Color, Walker, LibBase}

\* the tables build is given: distinct types in any discovery order, the
\* empty table included
BuildTables ==
    {TableOf(models) :
        models \in {q \in SeqsUpTo(BuildModels, MaxTypes) :
                       \A i, j \in 1..Len(q) : i # j => q[i] # q[j]}}

MaxNodes == 5

NodeNames == <<"N1", "N2", "N3", "N4", "N5", "N6", "N7", "N8", "N9">>

\* a type of the root package: one without members, or one with three fields
Node(name, large) ==
    TypeModel(name, None, "class", <<>>, <<>>,
        IF large
        THEN <<JavaField("a", Ref("int")), JavaField("b", Ref("int")),
               JavaField("c", Ref("int"))>>
        ELSE <<>>,
        EmptyImports, <<>>, name \o ".java")

\* tables of up to MaxNodes types of either size, enough for a grid of
\* several columns and several rows
GridTables ==
    {TableOf([i \in 1..Len(large) |-> Node(NodeNames[i], large[i])]) :
        large \in {q \in SeqsUpTo(BOOLEAN, MaxNodes) : Len(q) > MaxTypes}}

\* what a ruler measures: small text, text that outgrows the base size with
\* every row, wide text, or tall text
Rulers ==
    {[base_width |-> 100, indent |-> 0, header |-> 30, row_height |-> 10],
     [base_width |-> 200, indent |-> 30, header |-> 60, row_height |-> 50],
     [base_width |-> 320, indent |-> 0, header |-> 30, row_height |-> 10],
     [base_width |-> 100, indent |-> 0, header |-> 80, row_height |-> 50]}

BuildInit ==
    /\ types \in BuildTables \cup GridTables
    /\ ruler \in Rulers
    /\ project = EmptyProject
    /\ builder = NewBuilder
    /\ frame = NoneObject
    /\ summary = NoneObject
    /\ pc = "build"
    /\ raised = None
    /\ simple_index = <<>>
    /\ call = NoneObject
    /\ frontend = "java"
    /\ paths = <<>>
    /\ idx = 1
    /\ errors = <<>>

\* the builder and the project as the operators of the builder take them
Working ==
    [project |-> project, builder |-> builder, raised |-> None,
     total_elements |-> IF frame = NoneObject THEN 0 ELSE frame.total_elements,
     created |-> IF frame = NoneObject THEN 0 ELSE frame.created]

\* raise JavaImportError("No Java types to import")
AtRaise == pc = "build" /\ BuildRejects(types)

BuildRaise ==
    /\ AtRaise
    /\ raised' = "JavaImportError"
    /\ pc' = "raised"
    /\ UNCHANGED <<types, parseVars, resolverVars, buildVars>>

\* the resolver, the root package, the diagram and the ordered package groups
AtStart == pc = "build" /\ ~BuildRejects(types)

BuildStart ==
    /\ AtStart
    /\ simple_index' = BuildIndex(types, <<>>)
    /\ LET rooted == _create_root_package(Working)
           root_package == LastId(rooted)
           shown == _ensure_root_diagram(rooted, root_package)
       IN  /\ project' = shown.project
           /\ builder' = shown.builder
           /\ frame' = [root_package |-> root_package,
                        ordered_packages |->
                            SortedByKey(GroupPackages(DictValues(types), <<>>)),
                        package_index |-> 1, model_index |-> 1,
                        total_elements |-> 0, created |-> 0]
    /\ pc' = "packages"
    /\ UNCHANGED <<types, parseVars, call, raised, summary, ruler>>

\* one round of `for package_path, models in ordered_packages`
AtPackage == pc = "packages" /\ frame.package_index <= Len(frame.ordered_packages)

BuildPackage ==
    /\ AtPackage
    /\ LET item == frame.ordered_packages[frame.package_index]
           ensured == _ensure_package(Working, item.key, Len(item.key))
           package_element == DictGet(ensured.builder._packages, item.key)
           made == CreateElements(ensured, package_element, item.value)
       IN  /\ project' = made.project
           /\ builder' = made.builder
           /\ frame' = [frame EXCEPT !.package_index = @ + 1,
                                     !.total_elements = made.total_elements]
           /\ raised' = made.raised
           /\ pc' = IF made.raised # None THEN "raised" ELSE "packages"
    /\ UNCHANGED <<types, parseVars, resolverVars, summary, ruler>>

\* self._layout_classes()
AtLayout == pc = "packages" /\ frame.package_index > Len(frame.ordered_packages)

LayoutClasses ==
    /\ AtLayout
    /\ builder' = _layout_classes(Working, ruler).builder
    /\ pc' = "connections"
    /\ UNCHANGED <<types, parseVars, resolverVars, raised, project, frame, summary, ruler>>

\* _create_connections: one round of `for model in types.values()`
AtConnections == pc = "connections" /\ frame.model_index <= Len(types)

CreateConnections ==
    /\ AtConnections
    /\ LET made == ConnectModel(Working, types[frame.model_index].value)
       IN  /\ project' = made.project
           /\ builder' = made.builder
           /\ frame' = [frame EXCEPT !.model_index = @ + 1, !.created = made.created]
    /\ simple_index' =
          IF DictHas(builder._class_elements, types[frame.model_index].key)
          THEN IndexAfterAll(simple_index, ResolvedFor(types[frame.model_index].value),
                             types[frame.model_index].value)
          ELSE simple_index
    /\ UNCHANGED <<types, pc, parseVars, call, raised, summary, ruler>>

\* return BuildSummary(...)
AtReturn == pc = "connections" /\ frame.model_index > Len(types)

BuildReturn ==
    /\ AtReturn
    /\ summary' = [elements_created |-> frame.total_elements,
                   connections_created |-> frame.created,
                   primary_diagram |-> builder._diagram]
    /\ pc' = "built"
    /\ UNCHANGED <<types, parseVars, resolverVars, raised, project, builder, frame, ruler>>

BuildNext ==
    \/ BuildRaise
    \/ BuildStart
    \/ BuildPackage
    \/ LayoutClasses
    \/ CreateConnections
    \/ BuildReturn

SpecBuild == BuildInit /\ [][BuildNext]_vars

-----------------------------------------------------------------------------
(* Claims about build *)

Edge(connection_type, source, target) ==
    [type |-> connection_type, source |-> source, target |-> target]

Created(edge) == BagIn(edge, project.connections)

\* the element build made for the type a reference of the model resolves to
TargetOf(descriptor, model) == ElementNamed(Working, resolve(descriptor, model))

\* what holds in every state of a build for C9
RaisesIffEmpty ==
    /\ pc = "raised" =>
          types = <<>> /\ raised = "JavaImportError"
          /\ project = EmptyProject /\ builder = NewBuilder /\ summary = NoneObject
    /\ types = <<>> => pc \in {"build", "raised"} /\ project = EmptyProject
    /\ types # <<>> =>
          raised = None /\ pc # "raised" /\ (pc = "built" => summary # NoneObject)

\* the steps build has left at most: the rounds of its two loops and the
\* statements around them
Remaining ==
    CASE pc = "build" -> 2 * Len(types) + 5
      [] pc = "packages" ->
            Len(types) + 4 + Len(frame.ordered_packages) - frame.package_index
      [] pc = "connections" -> Len(types) + 2 - frame.model_index
      [] OTHER -> 0

\* C9: build raises an import error if and only if types is empty, and then
\* before it creates any container, diagram, node or edge: the project and
\* the builder are as they were.  On a non-empty table no exception leaves
\* build, whatever references of the table are unresolved: short of the
\* return a statement of build is always ready to run, and each statement
\* leaves fewer of them to run.
C9_RaisesIffEmpty ==
    /\ []RaisesIffEmpty
    /\ [](types = <<>> /\ pc = "build" => AtRaise)
    /\ [](types # <<>> /\ pc # "built" =>
             AtStart \/ AtPackage \/ AtLayout \/ AtConnections \/ AtReturn)
    /\ [][Remaining' < Remaining /\ Remaining' >= 0]_vars

C9_Witness ==
    /\ pc = "raised"
    /\ types = <<>>
    /\ raised = "JavaImportError"
    /\ project = EmptyProject

\* C10: no two created edges have the same (kind, source, target), in the
\* project and on the diagram; and once build has returned, every extends
\* reference and every field type that resolve to an imported type have
\* their own edge, a generalisation and an association, also when both join
\* the same two nodes.
C10_OneEdgePerTriple ==
    /\ \A edge \in BagToSet(project.connections) : CopiesIn(edge, project.connections) = 1
    /\ \A d \in 1..Len(project.diagrams) :
          \A edge \in BagToSet(project.diagrams[d].connections) :
              CopiesIn(edge, project.diagrams[d].connections) = 1
    /\ pc = "built" =>
          \A i \in 1..Len(types) :
              LET model == types[i].value
                  source == ElementNamed(Working, full_name(model))
              IN  /\ \A b \in 1..Len(model.extends) :
                        TargetOf(model.extends[b], model) # NoElement =>
                            Created(Edge(GENERALISATION_CONNECTION, source,
                                         TargetOf(model.extends[b], model)))
                  /\ \A f \in 1..Len(model.fields) :
                        (/\ model.fields[f].type_descriptor # NoneObject
                         /\ TargetOf(model.fields[f].type_descriptor, model) # NoElement) =>
                            Created(Edge(ASSOCIATION_CONNECTION, source,
                                         TargetOf(model.fields[f].type_descriptor, model)))

\* Derived extends Base and has two fields of type Base
C10_Witness ==
    /\ pc = "built"
    /\ DictHas(types, "app.Derived")
    /\ DictHas(types, "app.Base")
    /\ LET source == ElementNamed(Working, "app.Derived")
           target == ElementNamed(Working, "app.Base")
       IN  /\ TargetOf(Derived.fields[1].type_descriptor, Derived) = target
           /\ TargetOf(Derived.fields[2].type_descriptor, Derived) = target
           /\ CopiesIn(Edge(ASSOCIATION_CONNECTION, source, target), project.connections) = 1
           /\ CopiesIn(Edge(GENERALISATION_CONNECTION, source, target), project.connections) = 1

\* the nodes build created for the types of the table
TypeNodes ==
    {DictGet(builder._class_elements, name) :
        name \in DictKeys(builder._class_elements) \cap DictKeys(types)}

\* the references of a model that build turns into edges of a kind
EdgeReferences(model, connection_type) ==
    CASE connection_type = GENERALISATION_CONNECTION ->
            {model.extends[i] : i \in 1..Len(model.extends)}
            \cup (IF model.kind # "class"
                  THEN {model.implements[i] : i \in 1..Len(model.implements)} ELSE {})
      [] connection_type = IMPLEMENTATION_CONNECTION ->
            IF model.kind = "class"
            THEN {model.implements[i] : i \in 1..Len(model.implements)} ELSE {}
      [] OTHER ->
            UNION {{model.fields[f].type_descriptor}
                   \cup {model.fields[f].type_descriptor.arguments[a] :
                            a \in 1..Len(model.fields[f].type_descriptor.arguments)} :
                   f \in {g \in 1..Len(model.fields) :
                             model.fields[g].type_descriptor # NoneObject}}

\* C11: every edge build created joins two nodes that build created for
\* types of the table, and stands for a reference of the source type that
\* resolves to the full name of the target type, a key of the table; so a
\* reference that is unresolved, or resolves to a name outside the table
\* (the literal qualified name included), makes no edge, and no error either.
C11_EdgesJoinTypeNodes ==
    /\ \A edge \in BagToSet(project.connections) :
          /\ edge.source \in TypeNodes
          /\ edge.target \in TypeNodes
          /\ project.elements[edge.source].type = "class"
          /\ project.elements[edge.target].type = "class"
          /\ \E i \in 1..Len(types) :
                /\ ElementNamed(Working, types[i].key) = edge.source
                /\ \E reference \in EdgeReferences(types[i].value, edge.type) :
                      /\ resolve(reference, types[i].value) \in DictKeys(types)
                      /\ TargetOf(reference, types[i].value) = edge.target
    /\ types # <<>> => raised = None

\* Walker extends the unresolved Missing and has a field whose type resolves
\* to the literal java.util.Map; build returned and made edges
C11_Witness ==
    /\ pc = "built"
    /\ raised = None
    /\ DictHas(types, "lib.Walker")
    /\ resolve(Ref("Missing"), Walker) = None
    /\ resolve(Walker.fields[2].type_descriptor, Walker) = "java.util.Map"
    /\ ~DictHas(types, "java.util.Map")
    /\ project.connections # EmptyBag

\* C12: the summary build returns counts what build created:
\* connections_created is the number of edges (generalisation,
\* implementation and association) of the project, elements_created the
\* number of type nodes.
C12_SummaryCountsEdges ==
    pc = "built" =>
        /\ summary.connections_created = BagCardinality(project.connections)
        /\ summary.elements_created = Cardinality(TypeNodes)

\* _layout_classes has run
LaidOut == pc \in {"connections", "built"}

\* C13: for N >= 1 placed nodes the grid has columns = max(1, floor(sqrt(N)))
\* columns and rows = ceil(N / columns) rows; the node of creation index i
\* (from 0) is in column i mod columns and row i div columns, every row
\* index is below rows, and no two nodes have the same cell.
C13_GridCells ==
    LaidOut /\ builder._class_visuals # <<>> =>
        LET N == Len(builder._class_visuals)
            entries == layout_entries(Working, ruler)
            root == CHOOSE r \in 0..N : r * r <= N /\ (r + 1) * (r + 1) > N
            columns == IF root >= 1 THEN root ELSE 1
            rows == CHOOSE r \in 0..N : r * columns >= N /\ (r - 1) * columns < N
        IN  /\ Len(entries) = N
            /\ \A i \in 1..N :
                  /\ entries[i].element = builder._class_visuals[i].element
                  /\ entries[i].column = (i - 1) % columns
                  /\ entries[i].row = (i - 1) \div columns
                  /\ entries[i].row < rows
                  /\ entries[i].column < columns
            /\ \A i, j \in 1..N :
                  i # j => <<entries[i].row, entries[i].column>>
                           # <<entries[j].row, entries[j].column>>
            /\ \A i, j \in 1..N :
                  i # j => <<builder._class_visuals[i].x, builder._class_visuals[i].y>>
                           # <<builder._class_visuals[j].x, builder._class_visuals[j].y>>

\* five nodes: two columns, three rows, the last row not full
C13_Witness ==
    /\ LaidOut
    /\ Len(builder._class_visuals) = 5
    /\ layout_entries(Working, ruler)[5].column = 0
    /\ layout_entries(Working, ruler)[5].row = 2
    /\ layout_entries(Working, ruler)[4].column = 1

\* the largest member of a non-empty set of numbers
Largest(S) == CHOOSE m \in S : \A n \in S : n <= m

Disjoint(a, b) ==
    \/ a.x + a.width <= b.x
    \/ b.x + b.width <= a.x
    \/ a.y + a.height <= b.y
    \/ b.y + b.height <= a.y

\* C14: after layout, whatever the ruler measures, every node is at least as
\* wide and as high as its measured minimum, each column is as wide as the
\* widest node in it and each row as high as the highest node in it, and the
\* rectangles of two distinct nodes do not overlap.
C14_SizesAndNoOverlap ==
    LaidOut /\ builder._class_visuals # <<>> =>
        LET visuals == builder._class_visuals
            N == Len(visuals)
            entries == layout_entries(Working, ruler)
            columns == Max(1, IntSqrt(N))
            rows == CeilDiv(N, columns)
            sizes == Measured(Working, ruler, columns, rows, N)
        IN  /\ \A i \in 1..N :
                  LET minimal == MinimalSize(project.elements[visuals[i].element], ruler)
                  IN  /\ visuals[i].width >= minimal.width
                      /\ visuals[i].height >= minimal.height
                      /\ visuals[i].x =
                            origin_x + Offset(sizes.column_widths, ELEMENT_SPACING_X,
                                              entries[i].column)
                      /\ visuals[i].y =
                            origin_y + Offset(sizes.row_heights, ELEMENT_SPACING_Y,
                                              entries[i].row)
            /\ \A c \in 0..(columns - 1) :
                  sizes.column_widths[c] =
                      Largest({visuals[i].width : i \in {k \in 1..N : entries[k].column = c}})
            /\ \A r \in 0..(rows - 1) :
                  sizes.row_heights[r] =
                      Largest({visuals[i].height : i \in {k \in 1..N : entries[k].row = r}})
            /\ \A i, j \in 1..N : i # j => Disjoint(visuals[i], visuals[j])

\* a column holds a node grown to its measured width and a node of base
\* width, and a row a node grown to its measured height and one of base height
C14_Witness ==
    /\ LaidOut
    /\ Len(builder._class_visuals) = 5
    /\ LET visuals == builder._class_visuals
           entries == layout_entries(Working, ruler)
       IN  /\ \E i, j \in 1..5 :
                 /\ entries[i].column = entries[j].column
                 /\ visuals[i].width > BASE_ELEMENT_WIDTH
                 /\ visuals[i].width =
                       MinimalSize(project.elements[visuals[i].element], ruler).width
                 /\ visuals[j].width = BASE_ELEMENT_WIDTH
           /\ \E i, j \in 1..5 :
                 /\ entries[i].row = entries[j].row
                 /\ visuals[i].height > BASE_ELEMENT_HEIGHT
                 /\ visuals[j].height = BASE_ELEMENT_HEIGHT

-----------------------------------------------------------------------------
(* The regular-expression front-ends (C#, C++) read the text of a type     *)
(* body; the Java and Python front-ends read its syntax tree.  Text is a   *)
(* string, a character is a string of length one.                          *)

Char(s, i) == SubSeq(s, i, i)

\* \s
IsSpace(c) == c = " "

\* the characters of \w
WordChars == {Char(CodePoints, i) : i \in 2..Len(CodePoints)}

\* \w
IsWord(c) == c \in WordChars

\* the character classes of group 2 of MEMBER_PATTERN and of FIELD_PATTERN
IsTypeChar(fe, c) ==
    IF fe = "cpp"
    THEN IsWord(c) \/ c \in {":", "<", ">", ",", " ", "*", "&"}
    ELSE IsWord(c) \/ c \in {"<", ">", "[", "]", ",", " ", ".", "?"}

InClass(class, c) == IF class = "s" THEN IsSpace(c) ELSE IsWord(c)

\* the least position of a set of positions
First(positions) == CHOOSE k \in positions : \A j \in positions : k <= j

\* the first position from p on whose character is not in the class \s or \w
SkipWhile(s, p, class) ==
    LET stops == {k \in p..Len(s) : ~InClass(class, Char(s, k))}
    IN  IF stops = {} THEN Max(p, Len(s) + 1) ELSE First(stops)

\* the first position from p on that holds c, or 0
FindChar(s, p, c) ==
    LET found == {k \in p..Len(s) : Char(s, k) = c}
    IN  IF found = {} THEN 0 ELSE First(found)

\* str.strip()
RECURSIVE strip(_)
strip(s) ==
    IF s = "" THEN s
    ELSE IF IsSpace(Char(s, 1)) THEN strip(SubSeq(s, 2, Len(s)))
    ELSE IF IsSpace(Char(s, Len(s))) THEN strip(SubSeq(s, 1, Len(s) - 1))
    ELSE s

\* _extract_class_level_content, from position i at brace_depth
RECURSIVE ExtractFrom(_, _, _)
ExtractFrom(body, i, brace_depth) ==
    LET braces == {k \in i..Len(body) : Char(body, k) \in {"{", "}"}}
        next == IF braces = {} THEN Len(body) + 1 ELSE First(braces)
        run == IF brace_depth = 0 /\ i < next THEN SubSeq(body, i, next - 1) ELSE ""
    IN  IF i > Len(body) THEN ""
        ELSE IF next > Len(body) THEN run
        ELSE IF Char(body, next) = "{"
        THEN run \o "{" \o ExtractFrom(body, next + 1, brace_depth + 1)
        ELSE run \o "}" \o ExtractFrom(body, next + 1, brace_depth - 1)

\* CSharpSourceParser._extract_class_level_content and
\* CppSourceParser._extract_class_level_content
_extract_class_level_content(body) == ExtractFrom(body, 1, 0)

NoMatch == [name |-> "", end |-> 0]

\* the end of FIELD_PATTERN / MEMBER_PATTERN from position p:
\* \s+(\w+)\s*(?:=\s*([^;]+))?;  and of PROPERTY_PATTERN: \s+(\w+)\s*\{
MatchTail(s, p, property) ==
    LET a == SkipWhile(s, p, "s")
        b == SkipWhile(s, a, "w")
        c == SkipWhile(s, b, "s")
        d == FindChar(s, c + 1, ";")
    IN  IF a = p \/ b = a \/ c > Len(s) THEN NoMatch
        ELSE IF property
        THEN (IF Char(s, c) = "{" THEN [name |-> SubSeq(s, a, b - 1), end |-> c] ELSE NoMatch)
        ELSE IF Char(s, c) = ";" THEN [name |-> SubSeq(s, a, b - 1), end |-> c]
        ELSE IF Char(s, c) = "=" /\ d > c + 1 THEN [name |-> SubSeq(s, a, b - 1), end |-> d]
        ELSE NoMatch

\* the position after the run of type characters that starts at a
TypeRunEnd(fe, s, a) ==
    LET stops == {k \in a..Len(s) : ~IsTypeChar(fe, Char(s, k))}
    IN  IF stops = {} THEN Max(a, Len(s) + 1) ELSE First(stops)

\* the ways the pattern matches at position i: the type is s[a..e-1].  The
\* leading group takes white space only (the texts hold no modifier word):
\* any amount for MEMBER_PATTERN, two characters or more for FIELD_PATTERN
\* and PROPERTY_PATTERN.
MatchesAt(fe, s, i, property) ==
    LET w == SkipWhile(s, i, "s")
        lead == IF fe = "cpp" THEN 0 ELSE 2
        run == TypeRunEnd(fe, s, i)
    IN  {ae \in ((i + lead)..w) \X ((i + 1)..run) :
            /\ ae[1] < ae[2]
            /\ MatchTail(s, ae[2], property).end > 0}

\* the match the regular-expression engine reports among those at one
\* position: the greedy leading group first, then the shortest type
MatchAt(s, found, property) ==
    LET ae == CHOOSE x \in found :
                  \A y \in found : x[1] > y[1] \/ (x[1] = y[1] /\ x[2] <= y[2])
        tail == MatchTail(s, ae[2], property)
    IN  [name |-> tail.name, type |-> strip(SubSeq(s, ae[1], ae[2] - 1)), end |-> tail.end]

\* pattern.finditer(s): the matches from left to right, without overlap
RECURSIVE finditer(_, _, _, _)
finditer(fe, s, i, property) ==
    LET starts == {k \in i..Len(s) : MatchesAt(fe, s, k, property) # {}}
        match == MatchAt(s, MatchesAt(fe, s, First(starts), property), property)
    IN  IF starts = {} THEN <<>>
        ELSE <<match>> \o finditer(fe, s, match.end + 1, property)

\* CSharpSourceParser._parse_fields (fields, then properties) and the field
\* loop of CppSourceParser._parse_members: the name and the type text
_parse_fields(fe, class_level_body) ==
    LET named(found) == [i \in 1..Len(found) |->
                            [name |-> found[i].name, type |-> found[i].type]]
    IN  IF fe = "cpp"
        THEN named(finditer(fe, class_level_body, 1, FALSE))
        ELSE named(finditer(fe, class_level_body, 1, FALSE))
             \o named(finditer(fe, class_level_body, 1, TRUE))

\* _split_generic_args / _split_template_args: the loop over the characters
RECURSIVE SplitArgsFrom(_, _, _, _, _)
SplitArgsFrom(s, i, depth, current, result) ==
    IF i > Len(s)
    THEN (IF strip(current) # "" THEN Append(result, strip(current)) ELSE result)
    ELSE IF Char(s, i) = "<"
    THEN SplitArgsFrom(s, i + 1, depth + 1, current \o "<", result)
    ELSE IF Char(s, i) = ">"
    THEN SplitArgsFrom(s, i + 1, depth - 1, current \o ">", result)
    ELSE IF Char(s, i) = "," /\ depth = 0
    THEN SplitArgsFrom(s, i + 1, depth, "", Append(result, strip(current)))
    ELSE SplitArgsFrom(s, i + 1, depth, current \o Char(s, i), result)

\* mutant: every comma cuts
RECURSIVE SplitAtCommas(_, _, _, _)
SplitAtCommas(s, i, current, result) ==
    IF i > Len(s)
    THEN (IF strip(current) # "" THEN Append(result, strip(current)) ELSE result)
    ELSE IF Char(s, i) = ","
    THEN SplitAtCommas(s, i + 1, "", Append(result, strip(current)))
    ELSE SplitAtCommas(s, i + 1, current \o Char(s, i), result)

_split_generic_args_EveryComma(args_str) == SplitAtCommas(args_str, 1, "", <<>>)

\* CSharpSourceParser._split_generic_args and
\* CppSourceParser._split_template_args
_split_generic_args(args_str) == SplitArgsFrom(args_str, 1, 0, "", <<>>)

\* the last position that holds c, or 0
RECURSIVE LastChar(_, _, _)
LastChar(s, p, c) ==
    IF p = 0 THEN 0
    ELSE IF Char(s, p) = c THEN p
    ELSE LastChar(s, p - 1, c)

\* the position after the run of [\w.] (C#) or [\w:] (C++) that starts at p
RECURSIVE NameRunEnd(_, _, _)
NameRunEnd(fe, s, p) ==
    IF p > Len(s) THEN p
    ELSE IF IsWord(Char(s, p)) \/ Char(s, p) = (IF fe = "cpp" THEN ":" ELSE ".")
    THEN NameRunEnd(fe, s, p + 1)
    ELSE p

\* s.split("::")
RECURSIVE SplitScope(_, _, _)
SplitScope(s, i, current) ==
    IF i > Len(s) THEN <<current>>
    ELSE IF i < Len(s) /\ SubSeq(s, i, i + 1) = "::" THEN <<current>> \o SplitScope(s, i + 2, "")
    ELSE SplitScope(s, i + 1, current \o Char(s, i))

\* re.sub(r'[\s*&]+$', '', type_str)
RECURSIVE DropPointers(_)
DropPointers(s) ==
    IF s # "" /\ Char(s, Len(s)) \in {" ", "*", "&"}
    THEN DropPointers(SubSeq(s, 1, Len(s) - 1))
    ELSE s

\* the descriptor of a dotted or scoped name: the last part is the name, the
\* parts before it the qualifier
Named(parts, arguments, dimensions) ==
    [name |-> parts[Len(parts)],
     qualifier |-> IF Len(parts) > 1
                   THEN Join(".", SubSeq(parts, 1, Len(parts) - 1)) ELSE None,
     arguments |-> arguments,
     dimensions |-> dimensions]

\* CSharpSourceParser._parse_type_reference and
\* CppSourceParser._parse_type_reference, for a type without `?`, `const`
\* and array brackets on a plain name: the generic match
\* ([\w.]+)<(.+)>(\[\])? or ([\w:]+)<(.+)>, else the plain name
RECURSIVE _parse_type_reference(_, _)
_parse_type_reference(fe, type_str) ==
    LET text == IF fe = "cpp" THEN strip(DropPointers(strip(type_str))) ELSE strip(type_str)
        open == NameRunEnd(fe, text, 1)
        close == LastChar(text, Len(text), ">")
        generic == open > 1 /\ open <= Len(text) /\ Char(text, open) = "<" /\ close > open + 1
        name == SubSeq(text, 1, open - 1)
        pieces == _split_generic_args(SubSeq(text, open + 1, close - 1))
        parsed == [i \in 1..Len(pieces) |-> _parse_type_reference(fe, pieces[i])]
        arguments == SelectSeq(parsed, LAMBDA a : a # NoneObject)
    IN  IF text = "" THEN NoneObject
        ELSE IF generic
        THEN Named(IF fe = "cpp" THEN SplitScope(name, 1, "") ELSE Split(name),
                   arguments,
                   IF fe # "cpp" /\ close + 2 <= Len(text)
                      /\ SubSeq(text, close + 1, close + 2) = "[]" THEN 1 ELSE 0)
        ELSE IF fe = "cpp"
        THEN (IF Len(SplitScope(text, 1, "")) > 1
              THEN Named(SplitScope(text, 1, ""), <<>>, 0)
              ELSE [name |-> text, qualifier |-> None, arguments |-> <<>>, dimensions |-> 0])
        ELSE Named(Split(text), <<>>, 0)

\* s.split(",")
RECURSIVE SplitCommas(_, _, _)
SplitCommas(s, i, current) ==
    IF i > Len(s) THEN <<current>>
    ELSE IF Char(s, i) = "," THEN <<current>> \o SplitCommas(s, i + 1, "")
    ELSE SplitCommas(s, i + 1, current \o Char(s, i))

\* s.startswith(prefix)
startswith(s, prefix) ==
    Len(s) >= Len(prefix) /\ SubSeq(s, 1, Len(prefix)) = prefix

AccessSpecifiers == {"public", "private", "protected"}

\* re.sub(r'^(public|private|protected)\s+', '', base)
WithoutAccess(base) ==
    LET found == {a \in AccessSpecifiers :
                     /\ startswith(base, a)
                     /\ Len(base) > Len(a)
                     /\ IsSpace(Char(base, Len(a) + 1))}
    IN  IF found = {} THEN base
        ELSE LET access == CHOOSE w \in found : TRUE
                 rest == SkipWhile(base, Len(access) + 1, "s")
             IN  IF rest > Len(base) THEN "" ELSE SubSeq(base, rest, Len(base))

Uppers == {"A", "B", "C", "D", "E", "F", "G", "H", "I", "J", "K", "L", "M",
           "N", "O", "P", "Q", "R", "S", "T", "U", "V", "W", "X", "Y", "Z"}

\* base.startswith("I") and len(base) > 1 and base[1].isupper()
NamedAsInterface(base) ==
    startswith(base, "I") /\ Len(base) > 1 /\ Char(base, 2) \in Uppers

\* mutant: the access specifier stays
CleanBase_Keep(fe, base) == strip(base)

\* one base of the list: stripped, and in C++ without its access specifier
CleanBase(fe, base) ==
    IF fe = "cpp" THEN WithoutAccess(strip(base)) ELSE strip(base)

\* the loop over base_types_str.split(","): the lists extends and implements
RECURSIVE BasesFrom(_, _, _, _, _, _)
BasesFrom(fe, kind, parts, i, extends, implements) ==
    IF i > Len(parts) THEN [extends |-> extends, implements |-> implements]
    ELSE LET base == CleanBase(fe, parts[i])
             descriptor == IF base = "" THEN NoneObject
                           ELSE _parse_type_reference(fe, base)
         IN  IF descriptor = NoneObject
             THEN BasesFrom(fe, kind, parts, i + 1, extends, implements)
             ELSE IF fe = "cpp"
             THEN BasesFrom(fe, kind, parts, i + 1, Append(extends, descriptor), implements)
             ELSE IF kind = "interface" \/ NamedAsInterface(base)
             THEN BasesFrom(fe, kind, parts, i + 1, extends, Append(implements, descriptor))
             ELSE IF extends = <<>>
             THEN BasesFrom(fe, kind, parts, i + 1, Append(extends, descriptor), implements)
             ELSE BasesFrom(fe, kind, parts, i + 1, extends, Append(implements, descriptor))

\* _parse_content: extends and implements of a declaration with a base list
\* (cpp.py:107-118, csharp.py:90-106)
_parse_bases(fe, kind, base_types_str) ==
    IF base_types_str = "" THEN [extends |-> <<>>, implements |-> <<>>]
    ELSE BasesFrom(fe, kind, SplitCommas(base_types_str, 1, ""), 1, <<>>, <<>>)

-----------------------------------------------------------------------------
(* The members of a type body.  A member is a field, a method declaration  *)
(* or a method definition with parameters and a body of local              *)
(* declarations, or a constructor that assigns an attribute.  The C# and   *)
(* C++ front-ends get the body as text, the Java and Python front-ends as  *)
(* the tree their parser (javalang, ast) makes of it.                      *)

MaxMembers == 2

Member(kind, name, parameters, locals, loops) ==
    [kind |-> kind, name |-> name, parameters |-> parameters, locals |-> locals,
     loops |-> loops]

\* a parameter: its name, whether it has a default value, whether it starts
\* a new line of the parameter list
Parameter(name, default, newline) ==
    [name |-> name, default |-> default, newline |-> newline]

Members ==
    {Member("field", "y", <<>>, <<>>, <<>>),
     Member("initialised", "z", <<>>, <<>>, <<>>),
     Member("declaration", "f", <<Parameter("a", TRUE, FALSE)>>, <<>>, <<>>),
     Member("definition", "g", <<Parameter("b", FALSE, FALSE)>>, <<"y">>, <<"i">>),
     Member("definition", "h",
            <<Parameter("c", FALSE, FALSE), Parameter("d", TRUE, TRUE)>>, <<"l">>, <<>>),
     Member("constructor", "n", <<>>, <<"m">>, <<>>)}

\* the attribute a constructor assigns (self.s = ..., this.s = ...)
Attribute == "s"

RECURSIVE ParameterText(_)
ParameterText(parameters) ==
    IF parameters = <<>> THEN ""
    ELSE LET one == Head(parameters)
         IN  (IF one.newline THEN "  " ELSE "") \o "t " \o one.name
             \o (IF one.default THEN "=1" ELSE "")
             \o (IF Len(parameters) > 1 THEN "," ELSE "")
             \o ParameterText(Tail(parameters))

RECURSIVE LocalText(_)
LocalText(locals) ==
    IF locals = <<>> THEN "" ELSE "t " \o Head(locals) \o ";" \o LocalText(Tail(locals))

RECURSIVE LoopText(_)
LoopText(loops) ==
    IF loops = <<>> THEN ""
    ELSE "for(t " \o Head(loops) \o "=0;;){t j;}" \o LoopText(Tail(loops))

\* the source text of a member in C# and in C++
MemberText(m) ==
    CASE m.kind = "field" -> "  t " \o m.name \o ";"
      [] m.kind = "initialised" -> "  t " \o m.name \o "=1;"
      [] m.kind = "declaration" ->
            "  t " \o m.name \o "(" \o ParameterText(m.parameters) \o ");"
      [] m.kind = "definition" ->
            "  t " \o m.name \o "(" \o ParameterText(m.parameters) \o "){"
            \o LocalText(m.locals) \o LoopText(m.loops) \o "}"
      [] OTHER ->
            "  " \o m.name \o "(){" \o Attribute \o "=1;" \o LocalText(m.locals) \o "}"

RECURSIVE BodyText(_)
BodyText(members) ==
    IF members = <<>> THEN "" ELSE MemberText(Head(members)) \o BodyText(Tail(members))

IsField(m) == m.kind \in {"field", "initialised"}

\* JavaSourceParser._convert_fields: the declarators of type_decl.fields
_convert_fields(members) ==
    LET declared == SelectSeq(members, IsField)
    IN  [i \in 1..Len(declared) |-> [name |-> declared[i].name, type |-> "t"]]

\* PythonSourceParser._extract_init_fields: the self attributes the first
\* __init__ of the class body assigns
_extract_init_fields(members) ==
    IF \E i \in 1..Len(members) : members[i].kind = "constructor"
    THEN <<[name |-> Attribute, type |-> ""]>>
    ELSE <<>>

\* PythonSourceParser._convert_class: the class-level assignments, then the
\* attributes of __init__ that no field names yet
PythonFields(members) ==
    LET fields == _convert_fields(members)
    IN  fields \o SelectSeq(_extract_init_fields(members),
                            LAMBDA field : \A i \in 1..Len(fields) :
                                              fields[i].name # field.name)

\* the fields list a front-end makes of a type body
TypeFields(fe, members) ==
    CASE fe = "java" -> _convert_fields(members)
      [] fe = "python" -> PythonFields(members)
      [] OTHER -> _parse_fields(fe, _extract_class_level_content(BodyText(members)))

MemberLists == {q \in SeqsUpTo(Members, MaxMembers) : q # <<>>}

(* Type references: a term is a name with its arguments; its text is what a
   source file writes for it. *)
MaxDepth == 2

Leaves == {"K", "V"}

RECURSIVE Terms(_)
Terms(depth) ==
    IF depth = 0 THEN {[name |-> n, arguments |-> <<>>] : n \in Leaves}
    ELSE Terms(0)
         \cup {[name |-> "List", arguments |-> <<a>>] : a \in Terms(depth - 1)}
         \cup {[name |-> "Map", arguments |-> <<a, b>>] :
                  a \in Terms(depth - 1), b \in Terms(depth - 1)}

Generics == {t \in Terms(MaxDepth) : t.arguments # <<>>}

Separators == {",", ", "}

RECURSIVE Render(_, _)
Render(term, sep) ==
    IF term.arguments = <<>> THEN term.name
    ELSE term.name \o "<"
         \o Join(sep, [i \in 1..Len(term.arguments) |-> Render(term.arguments[i], sep)])
         \o ">"

\* the text between the angle brackets of a generic term
ArgumentsText(term, sep) ==
    Join(sep, [i \in 1..Len(term.arguments) |-> Render(term.arguments[i], sep)])

(* Base lists: each base is a type with, in C++, an optional access
   specifier before it. *)
MaxBases == 2

BaseTerms ==
    {[name |-> n, arguments |-> <<>>] : n \in {"Base", "IShape"}}
    \cup {[name |-> "List", arguments |-> <<[name |-> "K", arguments |-> <<>>]>>],
          [name |-> "Map", arguments |-> <<[name |-> "K", arguments |-> <<>>],
                                           [name |-> "V", arguments |-> <<>>]>>]}

Bases(fe) ==
    {[access |-> a, term |-> t] :
        a \in (IF fe = "cpp" THEN AccessSpecifiers \cup {""} ELSE {""}),
        t \in BaseTerms}

BaseLists(fe) == {q \in SeqsUpTo(Bases(fe), MaxBases) : q # <<>>}

\* the text of a base list, as it stands between the colon and the brace
BaseText(bases) ==
    Join(", ", [i \in 1..Len(bases) |->
                   (IF bases[i].access = "" THEN "" ELSE bases[i].access \o " ")
                   \o Render(bases[i].term, ", ")])
    \o " "

Kinds(fe) == IF fe = "cpp" THEN {"class", "struct"} ELSE {"class", "interface"}

(* The members of a Python class: how a member is declared and its name. *)
\* s.endswith(suffix)
endswith(s, suffix) ==
    Len(s) >= Len(suffix) /\ SubSeq(s, Len(s) - Len(suffix) + 1, Len(s)) = suffix

\* PythonSourceParser._convert_class: a class-level assignment of a class
\* that is no enum
AssignedModifiers(name) ==
    IF ~startswith(name, "_") THEN {"public"} ELSE {"private"}

\* PythonSourceParser._convert_annotated_field and _extract_init_fields
FieldModifiers(name) ==
    IF startswith(name, "__") THEN {"private"}
    ELSE IF startswith(name, "_") THEN {"protected"}
    ELSE {"public"}

\* PythonSourceParser._convert_method, for a method without decorators
MethodModifiers(name) ==
    IF startswith(name, "__") /\ endswith(name, "__") THEN {"public"}
    ELSE IF startswith(name, "__") THEN {"private"}
    ELSE IF startswith(name, "_") THEN {"protected"}
    ELSE {"public"}

Declarations == {"assignment", "annotated", "attribute", "method"}

PythonNames == {"x", "_x", "__x", "__x__", "x_"}

\* the modifiers the front-end gives a member of a class
PythonModifiers(how, name) ==
    CASE how = "assignment" -> AssignedModifiers(name)
      [] how = "method" -> MethodModifiers(name)
      [] OTHER -> FieldModifiers(name)

TextInit ==
    /\ pc = "text"
    /\ call = NoneObject
    /\ types = <<>>
    /\ raised = None
    /\ simple_index = <<>>
    /\ frontend \in Frontends
    /\ paths = <<>>
    /\ idx = 1
    /\ errors = <<>>
    /\ NoBuild

\* _parse_content / _convert_type / _convert_class on one type body
ParseBody ==
    /\ pc = "text"
    /\ \E members \in MemberLists :
          call' = [op |-> "fields", frontend |-> frontend, members |-> members,
                   body |-> IF frontend \in {"csharp", "cpp"} THEN BodyText(members) ELSE "",
                   class_level_body |->
                       IF frontend \in {"csharp", "cpp"}
                       THEN _extract_class_level_content(BodyText(members)) ELSE "",
                   fields |-> TypeFields(frontend, members)]
    /\ pc' = "returned"
    /\ UNCHANGED <<types, raised, simple_index, parseVars, buildVars>>

\* _split_generic_args / _split_template_args on the argument list of a type
SplitArguments ==
    /\ pc = "text"
    /\ frontend \in {"csharp", "cpp"}
    /\ \E term \in Generics, sep \in Separators :
          call' = [op |-> "split", frontend |-> frontend, term |-> term,
                   args_str |-> ArgumentsText(term, sep),
                   pieces |-> _split_generic_args(ArgumentsText(term, sep))]
    /\ pc' = "returned"
    /\ UNCHANGED <<types, raised, simple_index, parseVars, buildVars>>

\* _parse_type_reference on the text of a type
ParseTypeReference ==
    /\ pc = "text"
    /\ frontend \in {"csharp", "cpp"}
    /\ \E term \in Terms(MaxDepth), sep \in Separators :
          call' = [op |-> "type", frontend |-> frontend, term |-> term,
                   type_str |-> Render(term, sep),
                   descriptor |-> _parse_type_reference(frontend, Render(term, sep))]
    /\ pc' = "returned"
    /\ UNCHANGED <<types, raised, simple_index, parseVars, buildVars>>

\* _parse_content on a declaration with a base list: extends and implements
ParseBases ==
    /\ pc = "text"
    /\ frontend \in {"csharp", "cpp"}
    /\ \E bases \in BaseLists(frontend), kind \in Kinds(frontend) :
          LET lists == _parse_bases(frontend, kind, BaseText(bases))
          IN  call' = [op |-> "bases", frontend |-> frontend, kind |-> kind,
                       bases |-> bases, base_types_str |-> BaseText(bases),
                       extends |-> lists.extends, implements |-> lists.implements]
    /\ pc' = "returned"
    /\ UNCHANGED <<types, raised, simple_index, parseVars, buildVars>>

\* PythonSourceParser._convert_class on one member of a class body
ConvertMember ==
    /\ pc = "text"
    /\ frontend = "python"
    /\ \E how \in Declarations, name \in PythonNames :
          call' = [op |-> "member", frontend |-> frontend, how |-> how,
                   name |-> name, modifiers |-> PythonModifiers(how, name)]
    /\ pc' = "returned"
    /\ UNCHANGED <<types, raised, simple_index, parseVars, buildVars>>

\* the character at position k, or nothing outside the text
At(s, k) == IF k \in 1..Len(s) THEN Char(s, k) ELSE ""

\* the positions where a literal word of a pattern stands in the text
KeywordAt(s, word) ==
    {i \in 1..(Len(s) - Len(word) + 1) : SubSeq(s, i, i + Len(word) - 1) = word}

\* content[a:b], positions counted from one, both ends included
Slice(s, a, b) == IF a > b THEN "" ELSE SubSeq(s, a, b)

\* the matches of a set in the order of their start, as finditer yields them
\* (the matches of the texts do not overlap)
RECURSIVE InOrder(_)
InOrder(matches) ==
    IF matches = {} THEN <<>>
    ELSE LET m == CHOOSE x \in matches : \A y \in matches : x.start <= y.start
         IN  <<m>> \o InOrder(matches \ {m})

\* the first closing brace from start on at which as many braces have been
\* closed as opened, or 0
ClosingBrace(content, start) ==
    LET closes == {i \in start..Len(content) :
                      /\ Char(content, i) = "}"
                      /\ Cardinality({k \in start..i : Char(content, k) = "{"})
                            = Cardinality({k \in start..i : Char(content, k) = "}"})}
    IN  IF closes = {} THEN 0 ELSE First(closes)

\* CppSourceParser._find_matching_brace; 0 stands for -1
_find_matching_brace(content, start) ==
    IF At(content, start) # "{" THEN 0 ELSE ClosingBrace(content, start)

\* _extract_body: of cpp.py from the opening brace, of csharp.py from the end
\* of the match of CLASS_PATTERN
_extract_body(fe, content, start) ==
    LET end == IF fe = "cpp" THEN _find_matching_brace(content, start)
               ELSE ClosingBrace(content, start)
        open == IF fe = "cpp" THEN start ELSE FindChar(content, start, "{")
    IN  IF end = 0 THEN "" ELSE Slice(content, open + 1, end - 1)

\* ENUM_VALUE_PATTERN (\w+)\s*(?:=\s*[^,]+)?[,}] from position k: the
\* position of the comma or brace that ends the match, or 0
EnumValueEnd(s, k) ==
    LET e == SkipWhile(s, k, "w")
        f == SkipWhile(s, e, "s")
        comma == FindChar(s, f + 1, ",")
        braces == {j \in (f + 2)..Len(s) : Char(s, j) = "}"}
    IN  IF e = k THEN 0
        ELSE IF At(s, f) \in {",", "}"} THEN f
        ELSE IF At(s, f) # "=" THEN 0
        ELSE IF comma >= f + 2 THEN comma
        ELSE IF comma = 0 /\ braces # {} THEN Largest(braces)
        ELSE 0

\* ENUM_VALUE_PATTERN.finditer(body) from position i: group 1 of each match
RECURSIVE EnumValuesFrom(_, _)
EnumValuesFrom(body, i) ==
    LET starts == {k \in i..Len(body) : EnumValueEnd(body, k) > 0}
        k == First(starts)
    IN  IF starts = {} THEN <<>>
        ELSE <<SubSeq(body, k, SkipWhile(body, k, "w") - 1)>>
             \o EnumValuesFrom(body, EnumValueEnd(body, k) + 1)

\* CSharpSourceParser._parse_enum_constants, CppSourceParser._parse_enum_constants
_parse_enum_constants(body) == EnumValuesFrom(body, 1)

\* the word \s+(\w+) after the keyword that ends before position a
NameAfter(s, a) ==
    LET b == SkipWhile(s, a, "s")
        c == SkipWhile(s, b, "w")
    IN  IF b > a /\ c > b THEN [name |-> SubSeq(s, b, c - 1), end |-> c] ELSE NoMatch

\* NAMESPACE_PATTERN of cpp.py at position i, namespace\s+(\w+)\s*\{ : the
\* name and the position of the brace
NamespaceAt(s, i) ==
    LET word == NameAfter(s, i + 9)
        d == SkipWhile(s, word.end, "s")
    IN  IF word.end > 0 /\ At(s, d) = "{" THEN [name |-> word.name, end |-> d] ELSE NoMatch

\* CppSourceParser._find_namespaces: (name, start, end) of every namespace
\* whose brace is closed
_find_namespaces(content) ==
    InOrder({[name |-> NamespaceAt(content, i).name, start |-> i,
              end |-> _find_matching_brace(content, NamespaceAt(content, i).end)] :
                i \in {k \in KeywordAt(content, "namespace") :
                          /\ NamespaceAt(content, k).end > 0
                          /\ _find_matching_brace(content, NamespaceAt(content, k).end) > 0}})

\* the loop of _get_namespace_at_position
RECURSIVE NamespaceChain(_, _, _)
NamespaceChain(namespaces, pos, result) ==
    IF namespaces = <<>> THEN result
    ELSE LET ns == Head(namespaces)
         IN  NamespaceChain(Tail(namespaces), pos,
                 IF ns.start <= pos /\ pos <= ns.end
                 THEN (IF Truthy(result) THEN result \o "." \o ns.name ELSE ns.name)
                 ELSE result)

\* CppSourceParser._get_namespace_at_position
_get_namespace_at_position(namespaces, pos) == NamespaceChain(namespaces, pos, None)

\* the rest of CLASS_PATTERN of cpp.py after the name, (?:\s*:\s*([^{]+))?\s*\{ ,
\* and of ENUM_PATTERN, (?:\s*:\s*\w+)?\s*\{ : the position of the brace, or 0
BraceAfter(s, c, enum) ==
    LET d == SkipWhile(s, c, "s")
        brace == FindChar(s, d + 1, "{")
        e == SkipWhile(s, d + 1, "s")
        f == SkipWhile(s, e, "w")
        g == SkipWhile(s, f, "s")
    IN  IF At(s, d) = "{" THEN d
        ELSE IF At(s, d) # ":" THEN 0
        ELSE IF ~enum THEN (IF brace > d + 1 THEN brace ELSE 0)
        ELSE IF f > e /\ At(s, g) = "{" THEN g
        ELSE 0

\* CLASS_PATTERN of cpp.py at a keyword class or struct (the texts hold no
\* template prefix): name, start of the match, position of the brace
CppClassAt(s, i, kind) ==
    LET word == NameAfter(s, i + Len(kind))
        brace == IF word.end > 0 THEN BraceAfter(s, word.end, FALSE) ELSE 0
    IN  [name |-> word.name, start |-> i, end |-> brace, kind |-> kind]

\* ENUM_PATTERN of cpp.py at the keyword enum: enum\s+(?:class\s+)?(\w+)...
CppEnumAt(s, i) ==
    LET first == NameAfter(s, i + 4)
        second == IF first.end > 0 /\ first.name = "class"
                  THEN NameAfter(s, first.end) ELSE NoMatch
        scoped == IF second.end > 0 THEN BraceAfter(s, second.end, TRUE) ELSE 0
        plain == IF first.end > 0 THEN BraceAfter(s, first.end, TRUE) ELSE 0
    IN  IF scoped > 0 THEN [name |-> second.name, start |-> i, end |-> scoped, kind |-> "enum"]
        ELSE [name |-> first.name, start |-> i, end |-> plain, kind |-> "enum"]

\* CLASS_PATTERN of csharp.py at a keyword: the leading group needs a
\* modifier or white space before the keyword (in the texts a modifier is
\* followed by a blank); the match ends after the name
CSharpTypeAt(s, i, kind) ==
    LET word == NameAfter(s, i + Len(kind))
    IN  [name |-> word.name, start |-> i,
         end |-> IF i > 1 /\ IsSpace(At(s, i - 1)) THEN word.end ELSE 0, kind |-> kind]

\* NAMESPACE_PATTERN.search of csharp.py, namespace\s+([\w.]+) : group 1 of
\* the first match, or None
CSharpNamespace(content) ==
    LET run(b) == LET stops == {k \in b..Len(content) :
                                   ~(IsWord(Char(content, k)) \/ Char(content, k) = ".")}
                  IN  IF stops = {} THEN Len(content) + 1 ELSE First(stops)
        from(i) == SkipWhile(content, i + 9, "s")
        found == {i \in KeywordAt(content, "namespace") :
                     from(i) > i + 9 /\ run(from(i)) > from(i)}
    IN  IF found = {} THEN None
        ELSE SubSeq(content, from(First(found)), run(from(First(found))) - 1)

\* the TypeModel of a declaration, as far as the declaration decides it
Declaration(name, package, kind, enum_constants) ==
    [name |-> name, package |-> package, kind |-> kind, enum_constants |-> enum_constants]

\* CSharpSourceParser._parse_content and CppSourceParser._parse_content: the
\* models of the declarations of a text without comments and literals
_parse_content(fe, content) ==
    IF fe = "cpp"
    THEN LET namespaces == _find_namespaces(content)
             classes == InOrder({m \in UNION {{CppClassAt(content, i, kind) :
                                                  i \in KeywordAt(content, kind)} :
                                              kind \in {"class", "struct"}} : m.end > 0})
             enums == InOrder({m \in {CppEnumAt(content, i) :
                                         i \in KeywordAt(content, "enum")} : m.end > 0})
         IN  [n \in 1..Len(classes) |->
                 Declaration(classes[n].name,
                     _get_namespace_at_position(namespaces, classes[n].start),
                     IF classes[n].kind = "class" THEN "class" ELSE "struct", <<>>)]
             \o [n \in 1..Len(enums) |->
                    Declaration(enums[n].name,
                        _get_namespace_at_position(namespaces, enums[n].start), "enum",
                        _parse_enum_constants(_extract_body(fe, content, enums[n].end)))]
    ELSE LET namespace == CSharpNamespace(content)
             found == InOrder({m \in UNION {{CSharpTypeAt(content, i, kind) :
                                                i \in KeywordAt(content, kind)} :
                                            kind \in {"class", "interface", "struct", "enum"}} :
                              m.end > 0})
         IN  [n \in 1..Len(found) |->
                 Declaration(found[n].name, namespace, found[n].kind,
                     IF found[n].kind = "enum"
                     THEN _parse_enum_constants(_extract_body(fe, content, found[n].end))
                     ELSE <<>>)]

\* PythonSourceParser._convert_class on a class with the given base names
\* whose body holds one assignment per name: kind and enum_constants
_convert_class(name, module_name, bases, assigned) ==
    LET kind == IF \E b \in 1..Len(bases) : KeywordAt(bases[b], "Enum") # {}
                THEN "enum" ELSE "class"
    IN  Declaration(name, module_name, kind, IF kind = "enum" THEN assigned ELSE <<>>)

-----------------------------------------------------------------------------
(* The source texts given to _parse_content *)

MaxBlocks == 2

Type(name) == [ns |-> FALSE, name |-> name, inner |-> <<>>]

Namespace(name, inner) == [ns |-> TRUE, name |-> name, inner |-> inner]

\* what stands at the top of a file: a type, or a namespace block that holds
\* types and namespace blocks
Blocks ==
    {Type("X"),
     Namespace("a", <<Type("X")>>),
     Namespace("b", <<Type("Y")>>),
     Namespace("a", <<>>),
     Namespace("a", <<Namespace("b", <<Type("X")>>)>>),
     Namespace("a", <<Type("X"), Namespace("b", <<Type("Y")>>)>>),
     Namespace("a", <<Namespace("b", <<Type("X")>>), Type("Y")>>)}

SourceUnits == {q \in SeqsUpTo(Blocks, MaxBlocks) : q # <<>>}

\* the text of a file
RECURSIVE UnitText(_, _)
UnitText(fe, items) ==
    IF items = <<>> THEN ""
    ELSE (IF Head(items).ns
          THEN "namespace " \o Head(items).name \o " { "
               \o UnitText(fe, Head(items).inner) \o "} "
          ELSE IF fe = "cpp" THEN "class " \o Head(items).name \o " { }; "
          ELSE "public class " \o Head(items).name \o " { } ")
         \o UnitText(fe, Tail(items))

MaxConstants == 3

ConstantNames == {"A", "B", "C"}

\* the constants of an enumeration: distinct names in any order
ConstantLists ==
    {q \in SeqsUpTo(ConstantNames, MaxConstants) :
        q # <<>> /\ \A i, j \in 1..Len(q) : i # j => q[i] # q[j]}

\* the text of an enumeration E: plain or `enum class`, constants with or
\* without a value, with or without a comma after the last one
EnumText(fe, constants, scoped, valued, trailing) ==
    (IF fe = "cpp" THEN (IF scoped THEN "enum class E { " ELSE "enum E { ")
     ELSE "public enum E { ")
    \o Join(", ", [i \in 1..Len(constants) |->
                      constants[i] \o (IF valued THEN " = 1" ELSE "")])
    \o (IF trailing THEN ", " ELSE " ")
    \o (IF fe = "cpp" THEN "}; " ELSE "} ")

\* _parse_content on the text of a file with namespace blocks
ParseUnit ==
    /\ pc = "text"
    /\ frontend \in {"csharp", "cpp"}
    /\ \E unit \in SourceUnits :
          call' = [op |-> "unit", frontend |-> frontend, unit |-> unit,
                   content |-> UnitText(frontend, unit),
                   models |-> _parse_content(frontend, UnitText(frontend, unit))]
    /\ pc' = "returned"
    /\ UNCHANGED <<types, raised, simple_index, parseVars, buildVars>>

\* _parse_content, or _convert_class, on an enumeration
ParseEnum ==
    /\ pc = "text"
    /\ frontend \in {"csharp", "cpp", "python"}
    /\ \E constants \in ConstantLists, scoped \in BOOLEAN, valued \in BOOLEAN,
          trailing \in BOOLEAN :
          /\ scoped => frontend = "cpp"
          /\ LET content == IF frontend = "python" THEN ""
                            ELSE EnumText(frontend, constants, scoped, valued, trailing)
             IN  call' = [op |-> "enum", frontend |-> frontend, constants |-> constants,
                          scoped |-> scoped, valued |-> valued, trailing |-> trailing,
                          content |-> content,
                          models |-> IF frontend = "python"
                                     THEN <<_convert_class("E", "m", <<"Enum">>, constants)>>
                                     ELSE _parse_content(frontend, content)]
    /\ pc' = "returned"
    /\ UNCHANGED <<types, raised, simple_index, parseVars, buildVars>>

\* the caller takes the result
TextReturn ==
    /\ pc = "returned"
    /\ pc' = "text"
    /\ call' = NoneObject
    /\ UNCHANGED <<types, raised, simple_index, parseVars, buildVars>>

TextNext ==
    \/ ParseBody
    \/ SplitArguments
    \/ ParseTypeReference
    \/ ParseBases
    \/ ConvertMember
    \/ ParseUnit
    \/ ParseEnum
    \/ TextReturn

SpecText == TextInit /\ [][TextNext]_vars

-----------------------------------------------------------------------------
(* Claims about the text front-ends *)

IsCall(op) == call # NoneObject /\ call.op = op

\* how many members of a list satisfy a test, how many fields have a name
Count(seq, Test(_)) == Cardinality({i \in 1..Len(seq) : Test(seq[i])})

\* the brace depth at position i of a text: the braces opened and not closed
\* before it
DepthAt(text, i) ==
    Cardinality({k \in 1..(i - 1) : Char(text, k) = "{"})
    - Cardinality({k \in 1..(i - 1) : Char(text, k) = "}"})

\* the characters of a text at the positions lo..hi that are braces or at
\* brace depth 0, in order
RECURSIVE Kept(_, _, _)
Kept(text, lo, hi) ==
    IF lo > hi THEN ""
    ELSE IF lo = hi
    THEN (IF Char(text, lo) \in {"{", "}"} \/ DepthAt(text, lo) = 0
          THEN Char(text, lo) ELSE "")
    ELSE Kept(text, lo, (lo + hi) \div 2) \o Kept(text, (lo + hi) \div 2 + 1, hi)

\* C15: for every front-end, every entry of a type's fields list is a field
\* the type declares, once for each declaration: no local variable, loop
\* variable or parameter of a method is among the fields.  For C# and C++
\* the text the field patterns are matched in holds, besides the braces,
\* only the characters of the body at brace depth 0.
C15_OnlyClassLevelFields ==
    IsCall("fields") =>
        /\ \A i \in 1..Len(call.fields) :
              LET name == call.fields[i].name
              IN  /\ \/ \E k \in 1..Len(call.members) :
                           IsField(call.members[k]) /\ call.members[k].name = name
                     \/ /\ call.frontend = "python"
                        /\ name = Attribute
                        /\ \E k \in 1..Len(call.members) :
                              call.members[k].kind = "constructor"
                  /\ name # Attribute =>
                        Count(call.fields, LAMBDA field : field.name = name)
                        <= Count(call.members, LAMBDA m : IsField(m) /\ m.name = name)
        /\ call.frontend \in {"csharp", "cpp"} =>
              call.class_level_body = Kept(call.body, 1, Len(call.body))

\* the angle-bracket depth at position i of a text
AngleDepthAt(text, i) ==
    Cardinality({k \in 1..(i - 1) : Char(text, k) = "<"})
    - Cardinality({k \in 1..(i - 1) : Char(text, k) = ">"})

\* the positions of the commas of a text at angle-bracket depth 0
TopCommas(text) ==
    {i \in 1..Len(text) : Char(text, i) = "," /\ AngleDepthAt(text, i) = 0}

\* the text between the n-th and the (n+1)-th of the cuts, without the blanks
\* around it; cut 0 is before the text and the last cut is after it
PieceBetween(text, cuts, n) ==
    LET before == {c \in cuts : Cardinality({d \in cuts : d < c}) = n - 1}
        after == {c \in cuts : Cardinality({d \in cuts : d < c}) = n}
        from == IF n = 0 THEN 1 ELSE (CHOOSE c \in before : TRUE) + 1
        to == IF after = {} THEN Len(text) ELSE (CHOOSE c \in after : TRUE) - 1
    IN  strip(IF from > to THEN "" ELSE SubSeq(text, from, to))

\* the descriptor a term stands for
RECURSIVE Describe(_)
Describe(term) ==
    [name |-> term.name, qualifier |-> None,
     arguments |-> [i \in 1..Len(term.arguments) |-> Describe(term.arguments[i])],
     dimensions |-> 0]

\* C20: the argument list of a generic or template type is cut at the commas
\* at angle-bracket depth 0 and nowhere else: there is one piece more than
\* there are such commas, and the pieces are the texts between them.  So a
\* type text is parsed to the descriptor of its term, arguments nested as
\* written: Map<K, List<V>> is Map with two arguments, the second of them
\* List with one.
C20_CutsAtTopCommas ==
    /\ IsCall("split") =>
          /\ Len(call.pieces) = Cardinality(TopCommas(call.args_str)) + 1
          /\ \A n \in 1..Len(call.pieces) :
                call.pieces[n] = PieceBetween(call.args_str, TopCommas(call.args_str), n - 1)
          /\ Len(call.pieces) = Len(call.term.arguments)
    /\ IsCall("type") => call.descriptor = Describe(call.term)

C20_Witness ==
    /\ IsCall("type")
    /\ call.type_str = "Map<K, List<V>>"
    /\ call.descriptor.name = "Map"
    /\ Len(call.descriptor.arguments) = 2
    /\ call.descriptor.arguments[2].name = "List"
    /\ Len(call.descriptor.arguments[2].arguments) = 1

\* the members of a sequence at the positions of a set, in order
RECURSIVE Restrict(_, _, _)
Restrict(seq, positions, i) ==
    IF i > Len(seq) THEN <<>>
    ELSE (IF i \in positions THEN <<seq[i]>> ELSE <<>>) \o Restrict(seq, positions, i + 1)

\* the descriptors of the bases of a list, in source order
Declared(bases) == [i \in 1..Len(bases) |-> Describe(bases[i].term)]

\* C18: a declaration with a base list of n bases, each with or without an
\* access specifier, lists all n bases across extends and implements: every
\* base is in exactly one of the two lists, each list is in source order,
\* and every descriptor is the one of the base, without the specifier.
C18_AllBasesListed ==
    IsCall("bases") =>
        /\ Len(call.extends) + Len(call.implements) = Len(call.bases)
        /\ \E S \in SUBSET (1..Len(call.bases)) :
              /\ call.extends = Restrict(Declared(call.bases), S, 1)
              /\ call.implements =
                    Restrict(Declared(call.bases), (1..Len(call.bases)) \ S, 1)

\* a name that starts and ends with two underscores
IsDunder(name) == startswith(name, "__") /\ endswith(name, "__")

\* C19: in the Python front-end a member is marked by its name, however it
\* is declared: protected for one leading underscore, private for two
\* leading underscores on a name that is no dunder name, public for a
\* dunder method and for every name without a leading underscore.
C19_VisibilityByName ==
    IsCall("member") =>
        /\ (startswith(call.name, "_") /\ ~startswith(call.name, "__"))
              => call.modifiers = {"protected"}
        /\ (startswith(call.name, "__") /\ ~IsDunder(call.name))
              => call.modifiers = {"private"}
        /\ (call.how = "method" /\ IsDunder(call.name))
              => call.modifiers = {"public"}
        /\ ~startswith(call.name, "_") => call.modifiers = {"public"}

-----------------------------------------------------------------------------
(* Further claims about resolve *)

\* C21: a descriptor with qualifier Q and name N whose Q.N is a key of the
\* table resolves to Q.N, whatever the owning type's aliases, wildcard
\* prefixes and package are and however many types have the simple name N.
C21_KnownQualifiedName ==
    (IsResolve /\ QualifiedKnown) => call.result = QualifiedName

C21_Witness ==
    /\ IsResolve /\ QualifiedKnown
    /\ call.result = QualifiedName
    /\ AliasKnown /\ Alias # QualifiedName
    /\ WildcardCandidates \ {QualifiedName} # {}
    /\ PackageCandidates \ {QualifiedName} # {}
    /\ Cardinality(Namesakes) >= 3

\* the positions of the owning type's wildcard prefixes whose candidate is a
\* key of the table
WildcardHits ==
    {i \in 1..Len(call.context.imports.wildcard_imports) :
        (call.context.imports.wildcard_imports[i] \o "." \o call.descriptor.name)
            \in DictKeys(types)}

\* C22: when neither the qualified name nor an import alias matches, the
\* result is prefix.S for the first wildcard prefix of the owning type, in
\* declaration order, for which that name is a key of the table, also when
\* the owning type's package declares a type named S.
C22_FirstWildcardWins ==
    (IsResolve /\ ~QualifiedKnown /\ ~AliasKnown /\ WildcardHits # {})
    => \E i \in WildcardHits :
          /\ \A j \in WildcardHits : i <= j
          /\ call.result = call.context.imports.wildcard_imports[i] \o "."
                              \o call.descriptor.name

C22_Witness ==
    /\ IsResolve /\ ~QualifiedKnown /\ ~AliasKnown
    /\ Cardinality(WildcardHits) = 2
    /\ PackageCandidates # {}
    /\ call.result \notin PackageCandidates
    /\ call.result = call.context.imports.wildcard_imports[1] \o "."
                        \o call.descriptor.name

\* no lookup of resolve yields a result
NoLookupMatches ==
    /\ ~QualifiedKnown /\ ~AliasKnown
    /\ WildcardCandidates = {} /\ PackageCandidates = {}
    /\ Cardinality(Namesakes) # 1

\* C23: when no lookup yields a result, a descriptor with a qualifier
\* resolves to the literal Q.N, which is no key of the table, and a
\* descriptor without a qualifier is unresolved; so every result for an
\* unqualified descriptor is a key of the table.
C23_LiteralFallback ==
    IsResolve =>
        /\ (NoLookupMatches /\ ~Unqualified)
              => (call.result = QualifiedName /\ call.result \notin DictKeys(types))
        /\ (NoLookupMatches /\ Unqualified) => call.result = None
        /\ (Unqualified /\ Truthy(call.result)) => call.result \in DictKeys(types)

C23_Witness ==
    /\ IsResolve /\ NoLookupMatches /\ ~Unqualified
    /\ call.result = QualifiedName
    /\ call.result \notin DictKeys(types)
    /\ Cardinality(Namesakes) >= 2

-----------------------------------------------------------------------------
(* A resolver in use, or a build run: the types table and the simple-name  *)
(* index under every call.                                                 *)

FrameInit == ResolverInit \/ BuildInit

FrameNext == ResolverNext \/ BuildNext

SpecFrame == FrameInit /\ [][FrameNext]_vars

\* C24: once the resolver is constructed, no call of resolve or resolve_all
\* and no step of build changes the types table, a model in it or the
\* simple-name index; the index is only ever set by the constructor, to the
\* index of the table.
C24_TablesAreReadOnly ==
    [][/\ types' = types
       /\ IF pc = "build" /\ pc' = "packages"
          THEN simple_index' = BuildIndex(types, <<>>)
          ELSE simple_index' = simple_index]_vars

C24_Witness ==
    /\ IsResolve
    /\ ReachesIndex(call.descriptor, call.context)
    /\ types # <<>>
    /\ ~DictHas(simple_index, call.descriptor.name)
    /\ simple_index = BuildIndex(types, <<>>)
    /\ call.result = None

-----------------------------------------------------------------------------
(* Further claims about build *)

\* C25: once build has returned, every implements entry that resolves to a
\* created node has a realisation edge when the owning type is a class and a
\* generalisation edge when it is of any other kind, every extends entry
\* that resolves to a created node has a generalisation edge, each from the
\* owning type's node to the resolved node; and a realisation edge starts at
\* a class only.
C25_KindOfInheritanceEdge ==
    pc = "built" =>
        /\ \A i \in 1..Len(types) :
              LET model == types[i].value
                  source == ElementNamed(Working, full_name(model))
              IN  /\ \A b \in 1..Len(model.extends) :
                        TargetOf(model.extends[b], model) # NoElement =>
                            Created(Edge(GENERALISATION_CONNECTION, source,
                                         TargetOf(model.extends[b], model)))
                  /\ \A b \in 1..Len(model.implements) :
                        TargetOf(model.implements[b], model) # NoElement =>
                            Created(Edge(IF model.kind = "class"
                                         THEN IMPLEMENTATION_CONNECTION
                                         ELSE GENERALISATION_CONNECTION,
                                         source, TargetOf(model.implements[b], model)))
        /\ \A edge \in BagToSet(project.connections) :
              edge.type = IMPLEMENTATION_CONNECTION =>
                  \E i \in 1..Len(types) :
                      /\ types[i].value.kind = "class"
                      /\ ElementNamed(Working, types[i].key) = edge.source

\* the class Derived and the enum Color both list Flyable under implements
C25_Witness ==
    /\ pc = "built"
    /\ DictHas(types, "app.Derived") /\ DictHas(types, "Color")
    /\ DictHas(types, "app.api.Flyable")
    /\ LET target == ElementNamed(Working, "app.api.Flyable")
       IN  /\ Created(Edge(IMPLEMENTATION_CONNECTION,
                           ElementNamed(Working, "app.Derived"), target))
           /\ Created(Edge(GENERALISATION_CONNECTION,
                           ElementNamed(Working, "Color"), target))
           /\ ~Created(Edge(IMPLEMENTATION_CONNECTION,
                            ElementNamed(Working, "Color"), target))

\* a descriptor and the descriptors in its arguments, at every depth
RECURSIVE NestedDescriptors(_)
NestedDescriptors(descriptor) ==
    {descriptor}
    \cup UNION {NestedDescriptors(descriptor.arguments[i]) :
                   i \in 1..Len(descriptor.arguments)}

\* C26: once build has returned, every field of a type has an association
\* edge from the type's node to every created node that the field's type
\* descriptor, or a descriptor in its arguments at any depth, resolves to.
C26_AssociationPerTarget ==
    pc = "built" =>
        \A i \in 1..Len(types) :
            LET model == types[i].value
                source == ElementNamed(Working, full_name(model))
            IN  \A f \in 1..Len(model.fields) :
                    model.fields[f].type_descriptor # NoneObject =>
                        \A d \in NestedDescriptors(model.fields[f].type_descriptor) :
                            TargetOf(d, model) # NoElement =>
                                Created(Edge(ASSOCIATION_CONNECTION, source,
                                             TargetOf(d, model)))

\* the chain of names from the root package down to a package element
RECURSIVE PathOf(_)
PathOf(element) ==
    IF project.elements[element].parent = 0 THEN <<>>
    ELSE PathOf(project.elements[element].parent) \o <<project.elements[element].name>>

\* the package elements of the project that stand for the path q
Containers(q) ==
    {e \in 1..Len(project.elements) :
        project.elements[e].type = "package" /\ PathOf(e) = q}

PathOfModel(model) == IF Truthy(model.package) THEN Split(model.package) ELSE <<>>

\* C27: once build has returned, every non-empty prefix q of the package
\* path of a type has exactly one container; its parent is the one container
\* of q without its last segment (the root package for a single segment),
\* which was created before it; and the node of every type is a child of the
\* container of the type's own package path.
C27_ContainerPerPrefix ==
    pc = "built" =>
        \A i \in 1..Len(types) :
            LET path == PathOfModel(types[i].value)
                node == ElementNamed(Working, full_name(types[i].value))
            IN  /\ \A n \in 1..Len(path) :
                      /\ Cardinality(Containers(SubSeq(path, 1, n))) = 1
                      /\ \A c \in Containers(SubSeq(path, 1, n)) :
                            /\ Containers(SubSeq(path, 1, n - 1))
                                   = {project.elements[c].parent}
                            /\ project.elements[c].parent < c
                /\ Containers(<<>>) = {frame.root_package}
                /\ node # NoElement
                /\ Containers(path) = {project.elements[node].parent}

\* app.api.Flyable is in the table without any type of the package app: the
\* container app exists only as the parent of app.api
C27_Witness ==
    /\ pc = "built"
    /\ DictHas(types, "app.api.Flyable")
    /\ \A i \in 1..Len(types) : types[i].value.package # "app"
    /\ \E i \in 1..Len(types) : types[i].value.package = "lib"
    /\ \E outer \in Containers(<<"app">>), inner \in Containers(<<"app", "api">>) :
          /\ project.elements[inner].parent = outer
          /\ project.elements[ElementNamed(Working, "app.api.Flyable")].parent = inner

\* the entries of extends followed by those of implements
BaseEntries == call.extends \o call.implements

\* C28: a base list is cut only at the commas outside angle brackets: there
\* is one entry per piece between such commas, and a base written with
\* several generic arguments, such as Map<K, V>, is one entry of that name
\* with as many arguments as written, as often as the list names it.
C28_BaseListCutAtTopCommas ==
    IsCall("bases") =>
        /\ Len(BaseEntries) = Cardinality(TopCommas(call.base_types_str)) + 1
        /\ \A i \in 1..Len(call.bases) :
              Len(call.bases[i].term.arguments) > 1 =>
                  Cardinality({n \in 1..Len(BaseEntries) :
                                  /\ BaseEntries[n].name = call.bases[i].term.name
                                  /\ Len(BaseEntries[n].arguments)
                                         = Len(call.bases[i].term.arguments)})
                      = Cardinality({j \in 1..Len(call.bases) :
                                        call.bases[j].term = call.bases[i].term})

\* the types a file declares, in the order of the text, each with the chain of
\* the namespace blocks around it
RECURSIVE DeclaredIn(_, _)
DeclaredIn(items, chain) ==
    IF items = <<>> THEN <<>>
    ELSE (IF Head(items).ns
          THEN DeclaredIn(Head(items).inner,
                          IF chain = None THEN Head(items).name
                          ELSE chain \o "." \o Head(items).name)
          ELSE <<[name |-> Head(items).name, package |-> chain]>>)
         \o DeclaredIn(Tail(items), chain)

\* C29: the models of a C++ or C# file are its types in the order of the
\* text, and the package of each is the chain of the namespace blocks whose
\* braces enclose the declaration, outermost first and joined by dots; a
\* type outside every block has no package.
C29_PackageIsEnclosingChain ==
    IsCall("unit") =>
        [n \in 1..Len(call.models) |->
            [name |-> call.models[n].name, package |-> call.models[n].package]]
        = DeclaredIn(call.unit, None)

\* C30: an enumeration with the constants c1..cn yields a model of kind enum
\* whose enum_constants are c1..cn in the order of the declaration.
C30_EnumConstantsExact ==
    IsCall("enum") =>
        \E n \in 1..Len(call.models) :
            /\ call.models[n].kind = "enum"
            /\ call.models[n].enum_constants = call.constants

====
